---- MODULE Spec2Model ----
(***************************************************************************)
(* Model of func_wander: the canonical expression-tree enumerator          *)
(* (FuncNode), the ranked pool and the search driver (SearchTask).         *)
(*                                                                         *)
(* A tree node is a record                                                 *)
(*   [arity, num, arg1, arg2, values]                                      *)
(* where arg1/arg2 model the unique_ptr children (<<>> is nullptr, <<n>>   *)
(* owns node n) and values is the cached output vector m_values (<<>>      *)
(* when the cache is empty).  m_ch (min/max of m_values) is set together   *)
(* with m_values and only read right after Calculate, so it is derived     *)
(* from values.                                                            *)
(***************************************************************************)
EXTENDS Integers, Sequences, FiniteSets, TLC

VARIABLES atoms, skip_constant, skip_symmetric, max_depth,
          fnc, iter_result, calls, yielded, other,
          task, new_task, step_result, new_step_result, loaded, offered, document,
          lhs, rhs, ordering,
          threads, m_thread, m_mtx, caller, observed, whole,
          m_ranges, added

\* the library, the template flags and the depth limit of a run
config_vars == <<atoms, skip_constant, skip_symmetric, max_depth>>

\* the bare enumerator, the bookkeeping of its test loop, and a second node
enumerator_vars == <<fnc, iter_result, calls, yielded, other>>

\* the driver under test, the driver restored from its document, and the results
\* of the calls made on them
driver_vars == <<task, new_task, step_result, new_step_result, loaded, offered,
                 document>>

\* two suitability keys and the result of comparing them
metrics_vars == <<lhs, rhs, ordering>>

\* the worker threads of the driver, its mutex, the foreground caller and what the
\* caller last read
thread_vars == <<threads, m_thread, m_mtx, caller, observed, whole>>

\* a RangeSet and the calls made on it
rangeset_vars == <<m_ranges, added>>

vars == <<config_vars, enumerator_vars, driver_vars, metrics_vars, thread_vars,
          rangeset_vars>>

----------------------------------------------------------------------------
(* Bounds of the model *)

\* number of sample points of every value vector (VALUES_RANGE in the tests is 256)
ValuesRange == 4
\* largest max_depth explored with the small libraries
MaxDepth == 2
\* largest max_depth of the runs that record the set of produced trees
CountDepth == 2
\* largest max_best explored by the driver
MaxBest == 3

(* Program constants *)

\* uint16_t value type: 2^16
ValueModulus == 65536
\* depth used by the unit tests: fnc.Iterate(2), settings.max_depth = 2
TestMaxDepth == 2
\* default m_distance of SuitabilityMetrics
DefaultDistance == 1000000

----------------------------------------------------------------------------
(* Atoms of tests/unittest/atom_samples.h *)

AF_ARG_X == [cls |-> "AF_ARG_X", val |-> 0]
AF_CONST(v) == [cls |-> "AF_CONST", val |-> v]
AF_NOT == [cls |-> "AF_NOT", val |-> 0]
AF_BITCOUNT == [cls |-> "AF_BITCOUNT", val |-> 0]
AF_SUM == [cls |-> "AF_SUM", val |-> 0]
AF_AND == [cls |-> "AF_AND", val |-> 0]
AF_OR == [cls |-> "AF_OR", val |-> 0]

Points == 1..ValuesRange

RECURSIVE BitCount(_)
BitCount(x) == IF x = 0 THEN 0 ELSE (x % 2) + BitCount(x \div 2)

RECURSIVE BitAnd(_, _)
BitAnd(x, y) == IF x = 0 \/ y = 0 THEN 0
                ELSE ((x % 2) * (y % 2)) + 2 * BitAnd(x \div 2, y \div 2)

RECURSIVE BitOr(_, _)
BitOr(x, y) == IF x = 0 THEN y
               ELSE IF y = 0 THEN x
               ELSE (IF (x % 2) + (y % 2) > 0 THEN 1 ELSE 0) + 2 * BitOr(x \div 2, y \div 2)

\* AtomFunc0::Calculate: the cached vector of the atom (index i-1 of the C++ vector)
Atom0Calculate(f) ==
    IF f.cls = "AF_ARG_X" THEN [i \in Points |-> (i - 1) % ValueModulus]
    ELSE [i \in Points |-> f.val % ValueModulus]

Atom0Constant(f) == f.cls = "AF_CONST"

Atom1Calculate(f, arg) ==
    IF f.cls = "AF_NOT" THEN [i \in Points |-> (ValueModulus - 1) - arg[i]]
    ELSE [i \in Points |-> BitCount(arg[i])]

Atom2Calculate(f, a1, a2) ==
    IF f.cls = "AF_SUM" THEN [i \in Points |-> (a1[i] + a2[i]) % ValueModulus]
    ELSE IF f.cls = "AF_AND" THEN [i \in Points |-> BitAnd(a1[i], a2[i])]
    ELSE [i \in Points |-> BitOr(a1[i], a2[i])]

Commutative(f) == f.cls \in {"AF_SUM", "AF_AND", "AF_OR"}
Idempotent(f) == f.cls \in {"AF_AND", "AF_OR"}

Str(f) ==
    CASE f.cls = "AF_ARG_X" -> "X"
      [] f.cls = "AF_CONST" -> ToString(f.val)
      [] f.cls = "AF_NOT" -> "NOT"
      [] f.cls = "AF_BITCOUNT" -> "BITCOUNT"
      [] f.cls = "AF_SUM" -> "SUM"
      [] f.cls = "AF_AND" -> "AND"
      [] OTHER -> "OR"

\* MakeAtoms() of the unit tests
MakeAtoms == [arg0 |-> <<AF_ARG_X, AF_CONST(1), AF_CONST(2), AF_CONST(3)>>,
              arg1 |-> <<AF_NOT, AF_BITCOUNT>>,
              arg2 |-> <<AF_SUM, AF_AND, AF_OR>>]

\* AtomFuncs::Get (C++ index num is position num+1)
Get(a, arity, num) ==
    CASE arity = 0 -> a.arg0[num + 1]
      [] arity = 1 -> a.arg1[num + 1]
      [] OTHER -> a.arg2[num + 1]

----------------------------------------------------------------------------
(* FuncNode: structure *)

\* FuncNode(AtomFuncs_t* atoms): default AtomIndex, null children, empty cache
NewNode == [arity |-> 0, num |-> 0, arg1 |-> <<>>, arg2 |-> <<>>, values |-> <<>>]

Max2(x, y) == IF x >= y THEN x ELSE y
Min2(x, y) == IF x <= y THEN x ELSE y

RECURSIVE CopyNode(_)
\* copy constructor: atom index and children, not the cache
CopyNode(n) ==
    CASE n.arity = 0 -> [arity |-> n.arity, num |-> n.num, arg1 |-> <<>>, arg2 |-> <<>>,
                         values |-> <<>>]
      [] n.arity = 1 -> [arity |-> n.arity, num |-> n.num, arg1 |-> <<CopyNode(n.arg1[1])>>,
                         arg2 |-> <<>>, values |-> <<>>]
      [] OTHER -> [arity |-> n.arity, num |-> n.num, arg1 |-> <<CopyNode(n.arg1[1])>>,
                   arg2 |-> <<CopyNode(n.arg2[1])>>, values |-> <<>>]

RECURSIVE NodeEq(_, _)
\* FuncNode::operator== (both nodes share m_atoms in this model)
NodeEq(n, o) ==
    /\ n.arity = o.arity
    /\ n.num = o.num
    /\ IF n.arg1 = <<>> THEN o.arg1 = <<>>
       ELSE o.arg1 # <<>> /\ NodeEq(n.arg1[1], o.arg1[1])
    /\ IF n.arg2 = <<>> THEN o.arg2 = <<>>
       ELSE o.arg2 # <<>> /\ NodeEq(n.arg2[1], o.arg2[1])

RECURSIVE FunctionsCount(_)
FunctionsCount(n) ==
    CASE n.arity = 0 -> 0
      [] n.arity = 1 -> FunctionsCount(n.arg1[1]) + 1
      [] n.arity = 2 -> FunctionsCount(n.arg1[1]) + FunctionsCount(n.arg2[1]) + 1
      [] OTHER -> 0

RECURSIVE CurrentMaxLevel(_)
CurrentMaxLevel(n) ==
    CASE n.arity = 0 -> 0
      [] n.arity = 1 -> CurrentMaxLevel(n.arg1[1]) + 1
      [] n.arity = 2 -> Max2(CurrentMaxLevel(n.arg1[1]), CurrentMaxLevel(n.arg2[1])) + 1
      [] OTHER -> 0

RECURSIVE CurrentMinLevel(_)
CurrentMinLevel(n) ==
    CASE n.arity = 0 -> 0
      [] n.arity = 1 -> CurrentMinLevel(n.arg1[1]) + 1
      [] n.arity = 2 -> Min2(CurrentMinLevel(n.arg1[1]), CurrentMinLevel(n.arg2[1])) + 1
      [] OTHER -> 0

----------------------------------------------------------------------------
(* FuncNode: canonical numbering.  MaxSerialNumber and SerialNumber are the *)
(* numbers the source computes while nothing wraps; SerialNumber_SizeT adds  *)
(* the width of the accumulator SerialNumber() sums in.                      *)

RECURSIVE MaxSerialNumber(_, _)
MaxSerialNumber(a, level) ==
    IF level = 0 THEN Len(a.arg0)
    ELSE LET max_prev == MaxSerialNumber(a, level - 1)
             max_prev_lvl == IF level > 1 THEN max_prev - MaxSerialNumber(a, level - 2)
                             ELSE max_prev
         IN (max_prev * max_prev_lvl * Len(a.arg2)) + (max_prev_lvl * Len(a.arg1)) + max_prev

RECURSIVE SerialNumber(_, _)
SerialNumber(a, n) ==
    IF n.arity = 0 THEN n.num
    ELSE LET level == CurrentMaxLevel(n)
             max_prev == MaxSerialNumber(a, level - 1)
             max_prev2 == IF level > 1 THEN MaxSerialNumber(a, level - 2) ELSE 0
             max_prev_lvl == max_prev - max_prev2
         IN IF n.arity = 1
            THEN max_prev + (max_prev_lvl * n.num) + (SerialNumber(a, n.arg1[1]) - max_prev2)
            ELSE LET snum1 == SerialNumber(a, n.arg1[1])
                     snum2 == SerialNumber(a, n.arg2[1]) - max_prev2
                 IN max_prev + (max_prev_lvl * Len(a.arg1))
                    + (max_prev * max_prev_lvl * n.num)
                    + (max_prev * snum2 + snum1)

\* the width of std::size_t, scaled from 64 bits so that the serial numbers of the
\* trees of depth 2 pass it; SerialNumber_t (__int128, signed) has twice the width
SizeBits == 8
SizeModulus == 2 ^ SizeBits
SerialLimit == 2 ^ (2 * SizeBits - 1)

RECURSIVE SerialNumber_SizeT(_, _)
\* FuncNode::SerialNumber with its accumulator 'std::size_t snum': every 'snum +=' adds
\* in SerialNumber_t and converts the sum back to std::size_t
SerialNumber_SizeT(a, n) ==
    IF n.arity = 0 THEN n.num
    ELSE LET level == CurrentMaxLevel(n)
             max_prev == MaxSerialNumber(a, level - 1)
             max_prev2 == IF level > 1 THEN MaxSerialNumber(a, level - 2) ELSE 0
             max_prev_lvl == max_prev - max_prev2
         IN IF n.arity = 1
            THEN LET snum1 == SerialNumber_SizeT(a, n.arg1[1]) - max_prev2
                 IN ((((max_prev % SizeModulus)
                        + (max_prev_lvl * n.num)) % SizeModulus)
                        + snum1) % SizeModulus
            ELSE LET snum1 == SerialNumber_SizeT(a, n.arg1[1])
                     snum2 == SerialNumber_SizeT(a, n.arg2[1]) - max_prev2
                 IN ((((((max_prev % SizeModulus)
                        + (max_prev_lvl * Len(a.arg1))) % SizeModulus)
                        + (max_prev * max_prev_lvl * n.num)) % SizeModulus)
                        + (max_prev * snum2 + snum1)) % SizeModulus

RECURSIVE FirstLevelAbove(_, _, _)
\* the while loop of FromSerialNumber: smallest level with snum < MaxSerialNumber(level)
FirstLevelAbove(a, snum, level) ==
    IF MaxSerialNumber(a, level) <= snum THEN FirstLevelAbove(a, snum, level + 1) ELSE level

\* The while loop of FromSerialNumber ends only if MaxSerialNumber(level) grows past
\* snum; with no unary and no binary atoms MaxSerialNumber(level) = arg0.size() for
\* every level and the loop never ends.
FromSerialNumberTerminates(a, snum) ==
    snum < Len(a.arg0) \/ (Len(a.arg0) > 0 /\ (Len(a.arg1) > 0 \/ Len(a.arg2) > 0))

RECURSIVE FromSerialNumber(_, _, _)
\* FromSerialNumber called on node n (a fresh node in every call the source makes)
FromSerialNumber(a, n, snum) ==
    LET level == FirstLevelAbove(a, snum, 0)
    IN IF level = 0 THEN [n EXCEPT !.arity = 0, !.num = snum]
       ELSE LET max_prev == MaxSerialNumber(a, level - 1)
                max_prev2 == IF level > 1 THEN MaxSerialNumber(a, level - 2) ELSE 0
                max_prev_lvl == max_prev - max_prev2
                offset == snum - max_prev
                arg1_max_snum == max_prev_lvl * Len(a.arg1)
            IN IF offset < arg1_max_snum
               THEN [n EXCEPT !.arity = 1,
                              !.num = offset \div max_prev_lvl,
                              !.arg1 = <<FromSerialNumber(a, NewNode,
                                                          (offset % max_prev_lvl) + max_prev2)>>]
               ELSE LET ar2_offset == offset - max_prev_lvl * Len(a.arg1)
                        foo == ar2_offset \div max_prev
                        arg1_sn == ar2_offset % max_prev
                        arg2_sn == (foo % max_prev_lvl) + max_prev2
                    IN [n EXCEPT !.arity = 2,
                                 !.num = foo \div max_prev_lvl,
                                 !.arg1 = <<FromSerialNumber(a, NewNode, arg1_sn)>>,
                                 !.arg2 = <<FromSerialNumber(a, NewNode, arg2_sn)>>]

RECURSIVE UniqFunctionsSerialNumbers(_, _)
\* the set that UniqFunctionsSerialNumbers adds to its out-parameter
UniqFunctionsSerialNumbers(a, n) ==
    CASE n.arity = 0 -> {}
      [] n.arity = 1 -> UniqFunctionsSerialNumbers(a, n.arg1[1]) \cup {SerialNumber(a, n)}
      [] OTHER -> UniqFunctionsSerialNumbers(a, n.arg1[1])
                  \cup UniqFunctionsSerialNumbers(a, n.arg2[1]) \cup {SerialNumber(a, n)}

----------------------------------------------------------------------------
(* FuncNode: evaluation *)

ClearCalculated(n) == [n EXCEPT !.values = <<>>]

RECURSIVE Calculate(_, _, _)
\* Calculate(recalculate): the node with its own and its children's caches filled
Calculate(a, n, recalculate) ==
    IF n.values = <<>> \/ recalculate
    THEN CASE n.arity = 0 ->
                [n EXCEPT !.values = Atom0Calculate(a.arg0[n.num + 1])]
           [] n.arity = 1 ->
                LET c1 == Calculate(a, n.arg1[1], FALSE)
                IN [n EXCEPT !.arg1 = <<c1>>,
                             !.values = Atom1Calculate(a.arg1[n.num + 1], c1.values)]
           [] OTHER ->
                LET c1 == Calculate(a, n.arg1[1], FALSE)
                    c2 == Calculate(a, n.arg2[1], FALSE)
                IN [n EXCEPT !.arg1 = <<c1>>, !.arg2 = <<c2>>,
                             !.values = Atom2Calculate(a.arg2[n.num + 1], c1.values, c2.values)]
    ELSE n

\* Chars(): m_ch as Calculate left it
CharsMin(n) == CHOOSE v \in {n.values[i] : i \in Points} :
                   \A w \in {n.values[i] : i \in Points} : v <= w
CharsMax(n) == CHOOSE v \in {n.values[i] : i \in Points} :
                   \A w \in {n.values[i] : i \in Points} : v >= w

RECURSIVE Constant(_, _)
Constant(a, n) ==
    CASE n.arity = 0 -> Atom0Constant(a.arg0[n.num + 1])
      [] n.arity = 1 -> Constant(a, n.arg1[1])
      [] n.arity = 2 -> Constant(a, n.arg1[1]) /\ Constant(a, n.arg2[1])
      [] OTHER -> TRUE

RECURSIVE Repr(_, _)
\* Repr as the sequence of printed tokens
Repr(a, n) ==
    CASE n.arity = 0 -> <<Str(a.arg0[n.num + 1])>>
      [] n.arity = 1 -> <<Str(a.arg1[n.num + 1]), "(">> \o Repr(a, n.arg1[1]) \o <<")">>
      [] OTHER -> <<Str(a.arg2[n.num + 1]), "(">> \o Repr(a, n.arg1[1]) \o <<";">>
                  \o Repr(a, n.arg2[1]) \o <<")">>

----------------------------------------------------------------------------
(* FuncNode: the enumerator.  Every operator returns the node as the call    *)
(* leaves it; the Iterate family returns [ok |-> return value, node |-> it]. *)

RECURSIVE InitDepth(_, _, _)
InitDepth(n, maxd, current_depth) ==
    IF current_depth = maxd
    THEN [n EXCEPT !.arg2 = <<>>, !.arg1 = <<>>, !.arity = 0, !.num = 0]
    ELSE [n EXCEPT !.arg2 = <<>>,
                   !.arg1 = <<InitDepth(NewNode, maxd, current_depth + 1)>>,
                   !.arity = 1, !.num = 0]

LastArityFunc(a, n) ==
    CASE n.arity = 0 -> n.num + 1 >= Len(a.arg0)
      [] n.arity = 1 -> n.num + 1 >= Len(a.arg1)
      [] OTHER -> n.num + 1 >= Len(a.arg2)

NextArity1(n) ==
    [n EXCEPT !.arity = 1,
              !.num = IF n.arity # 1 THEN 0 ELSE n.num + 1,
              !.arg1 = <<NewNode>>,
              !.arg2 = <<>>]

NextArity2(n) ==
    [n EXCEPT !.arity = 2,
              !.num = IF n.arity # 2 THEN 0 ELSE n.num + 1,
              !.arg1 = <<NewNode>>,
              !.arg2 = <<NewNode>>]

IterateArity0(a, n, maxd, next_depth) ==
    IF LastArityFunc(a, n)
    THEN IF next_depth > maxd THEN [ok |-> FALSE, node |-> n]
         ELSE [ok |-> TRUE, node |-> NextArity1(n)]
    ELSE [ok |-> TRUE, node |-> [n EXCEPT !.num = n.num + 1]]

\* n is the binary node after m_arg1->Iterate
IterateArity2_CheckConstant(a, sc, n, arg1_iterated) ==
    IF sc /\ arg1_iterated
          /\ n.arg1[1].arity = 0 /\ Constant(a, n.arg1[1])
          /\ n.arg2[1].arity = 0 /\ Constant(a, n.arg2[1])
    THEN FALSE
    ELSE TRUE

\* variant: the idempotent case compares with > like the non-idempotent one
IterateArity2_CheckSymmetric_NoIdempotent(a, ss, n, arg1_iterated) ==
    IF ss /\ arg1_iterated /\ Commutative(a.arg2[n.num + 1])
    THEN ~(SerialNumber(a, n.arg1[1]) > SerialNumber(a, n.arg2[1]))
    ELSE TRUE

\* variant: equal serials are rejected under every commutative atom
IterateArity2_CheckSymmetric_Strict(a, ss, n, arg1_iterated) ==
    IF ss /\ arg1_iterated /\ Commutative(a.arg2[n.num + 1])
    THEN ~(SerialNumber(a, n.arg1[1]) >= SerialNumber(a, n.arg2[1]))
    ELSE TRUE

IterateArity2_CheckSymmetric(a, ss, n, arg1_iterated) ==
    IF ss /\ arg1_iterated /\ Commutative(a.arg2[n.num + 1])
    THEN IF Idempotent(a.arg2[n.num + 1])
         THEN ~(SerialNumber(a, n.arg1[1]) >= SerialNumber(a, n.arg2[1]))
         ELSE ~(SerialNumber(a, n.arg1[1]) > SerialNumber(a, n.arg2[1]))
    ELSE TRUE

RECURSIVE Iterate(_, _, _, _, _, _)
RECURSIVE IterateRaw(_, _, _, _, _, _)
RECURSIVE IterateArity1(_, _, _, _, _, _)
RECURSIVE IterateArity2(_, _, _, _, _, _)

\* m_arg1->InitDepth(max_depth, next_depth) / m_arg2->InitDepth(max_depth, next_depth)
InitArg1(n, maxd, next_depth) == [n EXCEPT !.arg1 = <<InitDepth(n.arg1[1], maxd, next_depth)>>]
\* variant: the second child stays the single leaf NextArity2 made
InitArg2_Leaf(n, maxd, next_depth) == n

InitArg2(n, maxd, next_depth) == [n EXCEPT !.arg2 = <<InitDepth(n.arg2[1], maxd, next_depth)>>]

\* IterateArity1 after m_arg1->Iterate returned r (r.node is the child as the call left it)
IterateArity1_Child(a, sc, n, r, maxd, next_depth) ==
    IF r.ok /\ ~(sc /\ r.node.arity = 0 /\ Constant(a, r.node))
    THEN [ok |-> TRUE, node |-> [n EXCEPT !.arg1 = <<r.node>>]]
    ELSE IF LastArityFunc(a, n)
         THEN [ok |-> TRUE,
               node |-> InitArg2(NextArity2([n EXCEPT !.arg1 = <<r.node>>]), maxd, next_depth)]
         ELSE [ok |-> TRUE,
               node |-> InitArg1(NextArity1([n EXCEPT !.arg1 = <<r.node>>]), maxd, next_depth)]

IterateArity1(a, sc, ss, n, maxd, next_depth) ==
    IterateArity1_Child(a, sc, n, Iterate(a, sc, ss, n.arg1[1], maxd, next_depth),
                        maxd, next_depth)

\* IterateArity2 after m_arg1 was rejected and m_arg2->Iterate returned r2
IterateArity2_Right(a, n1, r2, maxd, next_depth) ==
    IF ~r2.ok
    THEN IF LastArityFunc(a, n1)
         THEN [ok |-> FALSE, node |-> [n1 EXCEPT !.arg2 = <<r2.node>>]]
         ELSE [ok |-> TRUE,
               node |-> InitArg2(NextArity2([n1 EXCEPT !.arg2 = <<r2.node>>]), maxd, next_depth)]
    ELSE [ok |-> TRUE, node |-> [n1 EXCEPT !.arg2 = <<r2.node>>, !.arg1 = <<NewNode>>]]

\* IterateArity2 after m_arg1->Iterate returned ok1 and left the node as n1
IterateArity2_Left(a, sc, ss, n1, ok1, maxd, next_depth) ==
    IF ok1 /\ IterateArity2_CheckConstant(a, sc, n1, ok1)
           /\ IterateArity2_CheckSymmetric(a, ss, n1, ok1)
    THEN [ok |-> TRUE, node |-> n1]
    ELSE IterateArity2_Right(a, n1, Iterate(a, sc, ss, n1.arg2[1], maxd, next_depth),
                             maxd, next_depth)

\* the node with its first child replaced by what m_arg1->Iterate left, and the result
IterateArity2_Arg1(a, sc, ss, n, r1, maxd, next_depth) ==
    IterateArity2_Left(a, sc, ss, [n EXCEPT !.arg1 = <<r1.node>>], r1.ok, maxd, next_depth)

IterateArity2(a, sc, ss, n, maxd, next_depth) ==
    IterateArity2_Arg1(a, sc, ss, n, Iterate(a, sc, ss, n.arg1[1], maxd, next_depth),
                       maxd, next_depth)

\* the tail of IterateRaw: a failed step restarts at the next depth if there is one
IterateRaw_Result(r, current_max_depth, maxd, current_depth) ==
    IF ~r.ok /\ current_max_depth < maxd
    THEN [ok |-> TRUE, node |-> InitDepth(r.node, current_max_depth + 1, current_depth)]
    ELSE r

\* IterateRaw with current_max_depth = current_depth + CurrentMaxLevel() computed
IterateRaw_At(a, sc, ss, n, maxd, current_depth, current_max_depth) ==
    IterateRaw_Result(
        CASE n.arity = 0 -> IterateArity0(a, n, current_max_depth, current_depth + 1)
          [] n.arity = 1 -> IterateArity1(a, sc, ss, n, current_max_depth, current_depth + 1)
          [] n.arity = 2 -> IterateArity2(a, sc, ss, n, current_max_depth, current_depth + 1)
          [] OTHER -> [ok |-> FALSE, node |-> n],
        current_max_depth, maxd, current_depth)

IterateRaw(a, sc, ss, n, maxd, current_depth) ==
    IterateRaw_At(a, sc, ss, n, maxd, current_depth, current_depth + CurrentMaxLevel(n))

\* Iterate after Calculate(true): d is the node with its cache filled
Iterate_Chars(a, sc, ss, d, maxd, current_depth) ==
    IF CharsMin(d) = CharsMax(d)
    THEN Iterate(a, sc, ss, d, maxd, current_depth)
    ELSE [ok |-> TRUE, node |-> d]

\* the body of the while loop of Iterate after IterateRaw returned r
Iterate_Loop(a, sc, ss, r, maxd, current_depth) ==
    IF ~r.ok THEN r
    ELSE IF r.node.arity = 0 \/ ~sc THEN [ok |-> TRUE, node |-> ClearCalculated(r.node)]
    ELSE IF Constant(a, r.node)
         THEN Iterate(a, sc, ss, ClearCalculated(r.node), maxd, current_depth)
         ELSE Iterate_Chars(a, sc, ss, Calculate(a, ClearCalculated(r.node), TRUE),
                            maxd, current_depth)

Iterate(a, sc, ss, n, maxd, current_depth) ==
    Iterate_Loop(a, sc, ss, IterateRaw(a, sc, ss, n, maxd, current_depth), maxd, current_depth)

----------------------------------------------------------------------------
(* Configurations *)

\* libraries whose three buckets are all non-empty
FullLibraries ==
    {[arg0 |-> a0, arg1 |-> a1, arg2 |-> a2] :
        a0 \in {<<AF_ARG_X>>, <<AF_ARG_X, AF_CONST(1)>>},
        a1 \in {<<AF_NOT>>, <<AF_BITCOUNT>>},
        a2 \in {<<AF_AND>>, <<AF_SUM>>}}

\* libraries with a non-empty arity-0 bucket and an empty arity-1 or arity-2 bucket
SparseLibraries ==
    {[arg0 |-> a0, arg1 |-> a1, arg2 |-> a2] :
        a0 \in {<<AF_ARG_X>>, <<AF_ARG_X, AF_CONST(1)>>},
        a1 \in {<<>>, <<AF_NOT>>},
        a2 \in {<<>>, <<AF_SUM>>}}
    \ FullLibraries

\* The pruning flags read the atoms of the nodes they visit (Commutative, Calculate),
\* which is an out-of-range vector access when a bucket is empty; with both flags off
\* Iterate and SerialNumber never touch an atom, so the sparse libraries are explored
\* with the flags off only.
IterConfigs ==
    {[atoms |-> l, sc |-> c, ss |-> y, depth |-> d] :
        l \in FullLibraries, c \in BOOLEAN, y \in BOOLEAN, d \in 0..MaxDepth}
    \cup {[atoms |-> l, sc |-> FALSE, ss |-> FALSE, depth |-> d] :
        l \in SparseLibraries, d \in 0..MaxDepth}
    \cup {[atoms |-> MakeAtoms, sc |-> c, ss |-> y, depth |-> TestMaxDepth] :
        c \in BOOLEAN, y \in BOOLEAN}

\* default-constructed SuitabilityMetrics: m_distance = 1000000, the other three
\* members are left uninitialized (garbage g)
IndeterminateValues == {0, 9}
DefaultSuitabilityMetrics(g) ==
    [distance |-> DefaultDistance, max_level |-> g, functions_count |-> g,
     functions_unique |-> g]

\* SearchTask(settings, atoms, target)
SearchTask(settings, g) ==
    [m_settings |-> settings, m_fn |-> NewNode, m_count |-> 0, m_best |-> <<>>,
     m_suit_threshold |-> DefaultSuitabilityMetrics(g), m_done |-> FALSE]

Settings(mb, md) == [max_best |-> mb, max_depth |-> md]

\* no driver is under test: both drivers are freshly constructed and never called
DriverIdle ==
    /\ task = SearchTask(Settings(1, 0), 0)
    /\ new_task = SearchTask(Settings(1, 0), 0)
    /\ step_result = "none"
    /\ new_step_result = "none"
    /\ loaded = "no"
    /\ offered = {}
    /\ document = "none"

\* no RangeSet is under test
RangeSetIdle ==
    /\ m_ranges = {}
    /\ added = <<>>

\* no comparison is under test
MetricsIdle ==
    /\ lhs = DefaultSuitabilityMetrics(0)
    /\ rhs = DefaultSuitabilityMetrics(0)
    /\ ordering = "none"

\* a driver on which Run() was never called: m_thread is default-constructed (0: not
\* joinable), m_mtx is free (0), and the foreground thread is outside every call
ThreadsIdle ==
    /\ threads = <<>>
    /\ m_thread = 0
    /\ m_mtx = 0
    /\ caller = "idle"
    /\ observed = [call |-> "none"]
    /\ whole = SearchTask(Settings(1, 0), 0)

----------------------------------------------------------------------------
(* The bare enumerator, driven as the unit tests drive it:                  *)
(*   FuncNode fnc{&atoms}; while (fnc.Iterate(max_depth)) { ... }           *)

InitIter ==
    /\ \E c \in IterConfigs :
          /\ atoms = c.atoms
          /\ skip_constant = c.sc
          /\ skip_symmetric = c.ss
          /\ max_depth = c.depth
    /\ fnc = NewNode
    /\ iter_result = "none"
    /\ calls = 0
    /\ yielded = {}
    /\ other = NewNode
    /\ DriverIdle
    /\ MetricsIdle
    /\ RangeSetIdle
    /\ ThreadsIdle

\* fnc and the return value after a call that returned r
IterateResult(r) ==
    /\ fnc' = r.node
    /\ iter_result' = IF r.ok THEN "true" ELSE "false"

\* one call fnc.Iterate(max_depth) of the loop
IterateCall ==
    /\ iter_result # "false"
    /\ IterateResult(Iterate(atoms, skip_constant, skip_symmetric, fnc, max_depth, 0))
    /\ calls' = calls + 1
    /\ UNCHANGED <<config_vars, yielded, other, driver_vars, metrics_vars, rangeset_vars,
                   thread_vars>>

\* fnc.Iterate(max_depth) called again after the loop ended with false
IterateAfterFalse ==
    /\ iter_result = "false"
    /\ IterateResult(Iterate(atoms, skip_constant, skip_symmetric, fnc, max_depth, 0))
    /\ UNCHANGED <<config_vars, calls, yielded, other, driver_vars, metrics_vars, rangeset_vars,
                   thread_vars>>

NextIter == IterateCall \/ IterateAfterFalse

SpecIter == InitIter /\ [][NextIter]_vars

----------------------------------------------------------------------------
(* Properties of the enumerator *)

IsFullLibrary(a) == Len(a.arg0) >= 1 /\ Len(a.arg1) >= 1 /\ Len(a.arg2) >= 1

\* C1: every tree yielded by a successful iterate call has a serial number strictly
\* greater than that of the tree before it, for every library with a non-empty
\* arity-0 bucket, every max_depth and every setting of the pruning flags.
C1_SerialsStrictlyIncrease ==
    [][iter_result' = "true" => SerialNumber(atoms, fnc') > SerialNumber(atoms, fnc)]_vars

\* the same, for libraries whose three buckets are non-empty
SerialsIncreaseFullLibrary ==
    [][(iter_result' = "true" /\ IsFullLibrary(atoms))
          => SerialNumber(atoms, fnc') > SerialNumber(atoms, fnc)]_vars

\* C3: from_serial_number(t.serial_number()) rebuilds a tree structurally equal to t,
\* for every tree t the cursor reaches.
C3_SerialRoundTrip ==
    iter_result # "false"
        => /\ FromSerialNumberTerminates(atoms, SerialNumber(atoms, fnc))
           /\ NodeEq(FromSerialNumber(atoms, NewNode, SerialNumber(atoms, fnc)), fnc)

\* C28: SerialNumber() is computed in an integer type of at least twice the width of
\* std::size_t (128 bits): for every tree over a library with three non-empty buckets
\* whose serial number is below half the range of SerialNumber_t the result is exact, not truncated modulo the range of
\* std::size_t, and strictly less than MaxSerialNumber(depth of the tree).
C28_SerialNumberWide ==
    (iter_result # "false" /\ IsFullLibrary(atoms)
                          /\ SerialNumber(atoms, fnc) < SerialLimit)
        => /\ SerialNumber_SizeT(atoms, fnc) = SerialNumber(atoms, fnc)
           /\ SerialNumber_SizeT(atoms, fnc) < MaxSerialNumber(atoms, CurrentMaxLevel(fnc))

\* the same for the trees whose serial number fits std::size_t
SerialNumberExactInSizeT ==
    (iter_result # "false" /\ IsFullLibrary(atoms)
                          /\ SerialNumber(atoms, fnc) < SizeModulus)
        => /\ SerialNumber_SizeT(atoms, fnc) = SerialNumber(atoms, fnc)
           /\ SerialNumber_SizeT(atoms, fnc) < MaxSerialNumber(atoms, CurrentMaxLevel(fnc))

RECURSIVE CanonicalForm(_)
\* every binary node has a right subtree at least as deep as its left subtree, so that
\* a node of depth l has its right (or only) child at depth l - 1 exactly
CanonicalForm(n) ==
    CASE n.arity = 0 -> TRUE
      [] n.arity = 1 -> /\ CurrentMaxLevel(n.arg1[1]) = CurrentMaxLevel(n) - 1
                        /\ CanonicalForm(n.arg1[1])
      [] OTHER -> /\ CurrentMaxLevel(n.arg2[1]) = CurrentMaxLevel(n) - 1
                  /\ CurrentMaxLevel(n.arg1[1]) <= CurrentMaxLevel(n) - 1
                  /\ CanonicalForm(n.arg1[1])
                  /\ CanonicalForm(n.arg2[1])

\* no Iterate call at the root makes the tree less deep
DepthNeverDecreases == CurrentMaxLevel(fnc') >= CurrentMaxLevel(fnc)

\* C31: every tree reached from the initial tree by Iterate calls is in canonical form
\* (right subtree of a binary node of depth l at depth l - 1 exactly, left subtree at
\* most l - 1, child of a unary node at l - 1), and no Iterate call decreases the depth
\* of the tree at the root.
C31_CanonicalTrees == []CanonicalForm(fnc) /\ [][DepthNeverDecreases]_vars

\* a binary tree of depth 2 with a leaf as its left subtree, reached by a call that
\* returned true
C31_Witness ==
    /\ iter_result = "true"
    /\ fnc.arity = 2
    /\ CurrentMaxLevel(fnc) = 2
    /\ fnc.arg1[1].arity = 0
    /\ fnc.arg2[1].arity = 2

RECURSIVE WellFormed(_, _)
\* every node of arity k has exactly k children and an atom index below the size of
\* the arity-k bucket
WellFormed(a, n) ==
    /\ n.arity \in {0, 1, 2}
    /\ Len(n.arg1) = (IF n.arity >= 1 THEN 1 ELSE 0)
    /\ Len(n.arg2) = (IF n.arity = 2 THEN 1 ELSE 0)
    /\ n.num < (CASE n.arity = 0 -> Len(a.arg0)
                  [] n.arity = 1 -> Len(a.arg1)
                  [] OTHER -> Len(a.arg2))
    /\ \A i \in 1..Len(n.arg1) : WellFormed(a, n.arg1[i])
    /\ \A i \in 1..Len(n.arg2) : WellFormed(a, n.arg2[i])

\* C32: after any sequence of Iterate calls from the initial tree, for any library with
\* a non-empty arity-0 bucket, libraries with an empty arity-1 or arity-2 bucket
\* included, every node of arity k of the cursor tree has exactly k children and an
\* atom index smaller than the size of the arity-k bucket.
C32_NodesWellFormed == WellFormed(atoms, fnc)

\* the same for the libraries whose three buckets are non-empty
NodesWellFormedFullLibrary == IsFullLibrary(atoms) => WellFormed(atoms, fnc)

\* once Iterate returned false every later call with the same max_depth does
IterateExhaustionAbsorbing ==
    [][iter_result = "false" => iter_result' = "false"]_vars

\* C34: an Iterate(max_depth) call at the root that returns false leaves the tree
\* structurally unchanged: the cursor still equals the last tree that was yielded,
\* with either pruning flag on or off.
C34_FalseLeavesTree ==
    [][iter_result' = "false" => NodeEq(fnc', fnc)]_vars

\* the same with both pruning flags off
FalseLeavesTreeFlagsOff ==
    [][(iter_result' = "false" /\ ~skip_constant /\ ~skip_symmetric)
          => NodeEq(fnc', fnc)]_vars

SerialRoundTripFullLibrary ==
    (iter_result # "false" /\ IsFullLibrary(atoms))
        => NodeEq(FromSerialNumber(atoms, NewNode, SerialNumber(atoms, fnc)), fnc)


RECURSIVE Values(_, _)
\* the output vector of a tree, evaluated without any cache
Values(a, n) ==
    CASE n.arity = 0 -> Atom0Calculate(a.arg0[n.num + 1])
      [] n.arity = 1 -> Atom1Calculate(a.arg1[n.num + 1], Values(a, n.arg1[1]))
      [] OTHER -> Atom2Calculate(a.arg2[n.num + 1], Values(a, n.arg1[1]), Values(a, n.arg2[1]))

IsConstantVector(v) == \A i \in Points, j \in Points : v[i] = v[j]

\* C5: with skip-constant on, no tree yielded by a successful iterate call at the
\* root has a constant output vector, single arity-0 leaves included.
C5_NoConstantYielded ==
    (skip_constant /\ iter_result = "true") => ~IsConstantVector(Values(atoms, fnc))

\* the same for yielded trees with at least one function node
NoConstantFunctionYielded ==
    (skip_constant /\ iter_result = "true" /\ fnc.arity > 0)
        => ~IsConstantVector(Values(atoms, fnc))

RECURSIVE SymmetricOrdered(_, _)
\* every commutative binary node has sL < sR (idempotent atom) or sL <= sR (otherwise)
SymmetricOrdered(a, n) ==
    CASE n.arity = 0 -> TRUE
      [] n.arity = 1 -> SymmetricOrdered(a, n.arg1[1])
      [] OTHER ->
           /\ SymmetricOrdered(a, n.arg1[1])
           /\ SymmetricOrdered(a, n.arg2[1])
           /\ Commutative(a.arg2[n.num + 1]) =>
                IF Idempotent(a.arg2[n.num + 1])
                THEN SerialNumber(a, n.arg1[1]) < SerialNumber(a, n.arg2[1])
                ELSE SerialNumber(a, n.arg1[1]) <= SerialNumber(a, n.arg2[1])

\* C6: with skip-symmetric on, every commutative binary node of every yielded tree
\* has sL < sR when its atom is idempotent and sL <= sR otherwise.
C6_SymmetricOrderYielded ==
    (skip_symmetric /\ iter_result = "true") => SymmetricOrdered(atoms, fnc)

----------------------------------------------------------------------------
(* TEST(FuncIterator, SkipSymmetric) *)

T_X == <<"X">>
T_C(c) == <<c>>
T_F1(f, x) == <<f, "(">> \o x \o <<")">>
T_F2(f, x, y) == <<f, "(">> \o x \o <<";">> \o y \o <<")">>

\* the reprs the test expects: the initial tree, then one per Iterate(2) call
SkipSymmetricExpected ==
    << T_X, T_C("1"), T_C("2"), T_C("3"),
       T_F1("NOT", T_X), T_F1("NOT", T_C("1")), T_F1("NOT", T_C("2")), T_F1("NOT", T_C("3")),
       T_F1("BITCOUNT", T_X), T_F1("BITCOUNT", T_C("1")), T_F1("BITCOUNT", T_C("2")),
       T_F1("BITCOUNT", T_C("3")),
       T_F2("SUM", T_X, T_X), T_F2("SUM", T_X, T_C("1")), T_F2("SUM", T_C("1"), T_C("1")),
       T_F2("SUM", T_X, T_C("2")), T_F2("SUM", T_C("1"), T_C("2")),
       T_F2("SUM", T_C("2"), T_C("2")), T_F2("SUM", T_X, T_C("3")),
       T_F2("SUM", T_C("1"), T_C("3")), T_F2("SUM", T_C("2"), T_C("3")),
       T_F2("SUM", T_C("3"), T_C("3")),
       T_F2("AND", T_X, T_X), T_F2("AND", T_X, T_C("1")), T_F2("AND", T_X, T_C("2")),
       T_F2("AND", T_C("1"), T_C("2")), T_F2("AND", T_X, T_C("3")),
       T_F2("AND", T_C("1"), T_C("3")), T_F2("AND", T_C("2"), T_C("3")),
       T_F2("OR", T_X, T_X), T_F2("OR", T_X, T_C("1")), T_F2("OR", T_X, T_C("2")),
       T_F2("OR", T_C("1"), T_C("2")), T_F2("OR", T_X, T_C("3")),
       T_F2("OR", T_C("1"), T_C("3")), T_F2("OR", T_C("2"), T_C("3")),
       T_F1("NOT", T_F1("NOT", T_X)) >>

SkipSymmetricTest ==
    atoms = MakeAtoms /\ ~skip_constant /\ skip_symmetric /\ max_depth = TestMaxDepth

\* C7: with skip-symmetric on and skip-constant off, for the test library the initial
\* tree is X and the first 36 iterate(2) calls all return true and yield exactly the
\* listed trees in order.
C7_SkipSymmetricSequence ==
    (SkipSymmetricTest /\ calls < Len(SkipSymmetricExpected))
        => /\ iter_result # "false"
           /\ Repr(atoms, fnc) = SkipSymmetricExpected[calls + 1]

C7_Witness ==
    SkipSymmetricTest /\ calls = Len(SkipSymmetricExpected) - 1 /\ iter_result = "true"


----------------------------------------------------------------------------
(* The enumerator with both pruning flags off, recording every tree produced. *)
(* With the flags off only the sizes of the buckets matter.                   *)

CountLibraries ==
    {[arg0 |-> a0, arg1 |-> a1, arg2 |-> a2] :
        a0 \in {<<AF_ARG_X>>, <<AF_ARG_X, AF_CONST(1)>>},
        a1 \in {<<>>, <<AF_NOT>>, <<AF_NOT, AF_BITCOUNT>>},
        a2 \in {<<>>, <<AF_SUM>>}}

InitCount ==
    /\ atoms \in CountLibraries
    /\ skip_constant = FALSE
    /\ skip_symmetric = FALSE
    /\ max_depth \in 0..CountDepth
    /\ fnc = NewNode
    /\ iter_result = "none"
    /\ calls = 0
    /\ yielded = {NewNode}
    /\ other = NewNode
    /\ DriverIdle
    /\ MetricsIdle
    /\ RangeSetIdle
    /\ ThreadsIdle

\* one call fnc.Iterate(max_depth); yielded collects the initial tree and every tree
\* a successful call leaves in fnc
CountedIterateCall ==
    /\ iter_result # "false"
    /\ IterateResult(Iterate(atoms, skip_constant, skip_symmetric, fnc, max_depth, 0))
    /\ yielded' = IF iter_result' = "true" THEN yielded \cup {CopyNode(fnc')} ELSE yielded
    /\ calls' = calls + 1
    /\ UNCHANGED <<config_vars, other, driver_vars, metrics_vars, rangeset_vars, thread_vars>>

NextCount == CountedIterateCall

SpecCount == InitCount /\ [][NextCount]_vars

RECURSIVE CountLaw(_, _)
\* M(l) of the count law: M(-1) = 0, M(0) = A_0,
\* M(l) = M(l-1) + (M(l-1) - M(l-2)) * A_1 + M(l-1) * (M(l-1) - M(l-2)) * A_2
CountLaw(a, l) ==
    IF l < 0 THEN 0
    ELSE IF l = 0 THEN Len(a.arg0)
    ELSE CountLaw(a, l - 1)
         + (CountLaw(a, l - 1) - CountLaw(a, l - 2)) * Len(a.arg1)
         + CountLaw(a, l - 1) * (CountLaw(a, l - 1) - CountLaw(a, l - 2)) * Len(a.arg2)

\* C2: with both flags off, for every library with A_0 >= 1, A_1 >= 0, A_2 >= 0 the
\* number of distinct trees produced until iterate returns false is M(max_depth),
\* which is also what max_serial_number(max_depth) computes.
C2_CountLaw ==
    iter_result = "false"
        => /\ Cardinality(yielded) = CountLaw(atoms, max_depth)
           /\ MaxSerialNumber(atoms, max_depth) = CountLaw(atoms, max_depth)

\* the same, for libraries whose three buckets are non-empty
CountLawFullLibrary ==
    (iter_result = "false" /\ IsFullLibrary(atoms))
        => /\ Cardinality(yielded) = CountLaw(atoms, max_depth)
           /\ MaxSerialNumber(atoms, max_depth) = CountLaw(atoms, max_depth)

----------------------------------------------------------------------------
(* The target of the unit tests and RangeSet                                *)

\* TestTarget(): m_values[i] = i
TargetValues == [i \in Points |-> (i - 1) % ValueModulus]

\* TestTarget::Compare: the number of positions where values differs from the target
Compare(values) == Cardinality({i \in Points : values[i] # TargetValues[i]})

\* std::pair ordering of the std::set that holds the ranges
PairLess(p, q) == p[1] < q[1] \/ (p[1] = q[1] /\ p[2] < q[2])

\* prev->second >= start - 1 on size_t: for start = 0 the right-hand side wraps to the
\* largest size_t, which no index of the model reaches
PrevReaches(second, start) == IF start = 0 THEN FALSE ELSE second >= start - 1

RECURSIVE AddRange_Following(_, _, _, _)
\* the while loop of AddRange: following is [range_it, end()), merged while it touches
AddRange_Following(ranges, following, start, end) ==
    IF following = {} THEN ranges \cup {<<start, end>>}
    ELSE LET first == CHOOSE p \in following : \A q \in following : ~PairLess(q, p)
         IN IF first[1] <= end + 1
            THEN AddRange_Following(ranges \ {first}, following \ {first}, start,
                                    Max2(end, first[2]))
            ELSE ranges \cup {<<start, end>>}

\* AddRange after lower_bound split the set into the ranges before and from range_it
AddRange_Previous(ranges, before, following, start, end) ==
    IF before = {} THEN AddRange_Following(ranges, following, start, end)
    ELSE LET prev == CHOOSE p \in before : \A q \in before : ~PairLess(p, q)
         IN IF PrevReaches(prev[2], start)
            THEN AddRange_Following(ranges \ {prev}, following, prev[1], Max2(prev[2], end))
            ELSE AddRange_Following(ranges, following, start, end)

\* RangeSet::AddRange for start <= end
AddRange_Ordered(ranges, start, end) ==
    AddRange_Previous(ranges,
                      {p \in ranges : PairLess(p, <<start, end>>)},
                      {p \in ranges : ~PairLess(p, <<start, end>>)},
                      start, end)

\* RangeSet::AddRange
AddRange(ranges, start, end) ==
    IF start > end THEN AddRange_Ordered(ranges, end, start)
    ELSE AddRange_Ordered(ranges, start, end)

\* RangeSet::Add
Add(ranges, number) == AddRange(ranges, number, number)

RECURSIVE MatchPositions_From(_, _, _)
\* the loop of TestTarget::MatchPositions from C++ index i - 1 on
MatchPositions_From(values, i, rset) ==
    IF i > ValuesRange THEN rset
    ELSE MatchPositions_From(values, i + 1,
             IF values[i] = TargetValues[i] THEN Add(rset, i - 1) ELSE rset)

\* TestTarget::MatchPositions
MatchPositions(values) == MatchPositions_From(values, 1, {})

----------------------------------------------------------------------------
(* SuitabilityMetrics                                                       *)

SuitabilityMetrics(distance, max_level, functions_count, functions_unique) ==
    [distance |-> distance, max_level |-> max_level,
     functions_count |-> functions_count, functions_unique |-> functions_unique]

\* SuitabilityMetrics::operator==
MetricsEq(m, o) ==
    /\ m.distance = o.distance
    /\ m.max_level = o.max_level
    /\ m.functions_count = o.functions_count
    /\ m.functions_unique = o.functions_unique

\* SuitabilityMetrics::operator<=>: functions_count takes no part
MetricsCompare(m, o) ==
    CASE m.distance > o.distance -> "greater"
      [] m.distance < o.distance -> "less"
      [] m.max_level > o.max_level -> "greater"
      [] m.max_level < o.max_level -> "less"
      [] m.functions_unique > o.functions_unique -> "greater"
      [] m.functions_unique < o.functions_unique -> "less"
      [] OTHER -> "equivalent"

----------------------------------------------------------------------------
(* SearchTask: the pool                                                     *)

\* CalcDist of a node whose cache Calculate() has filled
CalcDist_Calculated(a, c) ==
    SuitabilityMetrics(Compare(c.values), CurrentMaxLevel(c), FunctionsCount(c),
                       Cardinality(UniqFunctionsSerialNumbers(a, c)))

\* SearchTask::CalcDist (the value it returns)
CalcDist(a, f) == CalcDist_Calculated(a, Calculate(a, f, FALSE))

\* variant: the copy of fnc goes to the end of the list
InsertBefore_AtEnd(best, i, f) ==
    Append(best, CopyNode(f))

\* m_best.insert(best_it, fnc): a copy of fnc before position i
InsertBefore(best, i, f) ==
    SubSeq(best, 1, i - 1) \o <<CopyNode(f)>> \o SubSeq(best, i, Len(best))

\* variant: only the value vectors are compared
CheckBest_Duplicate_ValuesOnly(b_calc, fnc_calc, fnc_ranges) ==
    b_calc = fnc_calc

\* the two tests of the uniqueness loop on one pool entry
CheckBest_Duplicate(b_calc, fnc_calc, fnc_ranges) ==
    b_calc = fnc_calc \/ MatchPositions(b_calc) = fnc_ranges

RECURSIVE CheckBest_Unique(_, _, _, _, _, _)
\* the uniqueness loop from entry k on; on success fnc is inserted before position i
CheckBest_Unique(a, best, k, i, f, fnc_ranges) ==
    IF k > Len(best) THEN InsertBefore(best, i, f)
    ELSE IF CheckBest_Duplicate(Calculate(a, best[k], FALSE).values, f.values, fnc_ranges)
         THEN [best EXCEPT ![k] = Calculate(a, best[k], FALSE)]
         ELSE CheckBest_Unique(a, [best EXCEPT ![k] = Calculate(a, best[k], FALSE)],
                               k + 1, i, f, fnc_ranges)

RECURSIVE CheckBest_Scan(_, _, _, _, _, _)
\* variant: a tree that is less than no entry is appended
CheckBest_Scan_Appends(a, best, i, f, fnc_ranges, new_dist) ==
    IF i > Len(best) THEN Append(best, CopyNode(f))
    ELSE IF MetricsCompare(new_dist, CalcDist(a, best[i])) = "less"
         THEN CheckBest_Unique(a, [best EXCEPT ![i] = Calculate(a, best[i], FALSE)],
                               1, i, f, fnc_ranges)
         ELSE CheckBest_Scan(a, [best EXCEPT ![i] = Calculate(a, best[i], FALSE)],
                             i + 1, f, fnc_ranges, new_dist)

\* the insertion scan from best_it = position i on; f is fnc with its cache filled
CheckBest_Scan(a, best, i, f, fnc_ranges, new_dist) ==
    IF i > Len(best) THEN best
    ELSE IF MetricsCompare(new_dist, CalcDist(a, best[i])) = "less"
         THEN CheckBest_Unique(a, [best EXCEPT ![i] = Calculate(a, best[i], FALSE)],
                               1, i, f, fnc_ranges)
         ELSE CheckBest_Scan(a, [best EXCEPT ![i] = Calculate(a, best[i], FALSE)],
                             i + 1, f, fnc_ranges, new_dist)

\* variant: the threshold is taken from the first entry
CheckBest_Trim_FirstEntry(a, best, max_best, f) ==
    [m_best |-> [i \in 1..Min2(Len(best), max_best) |->
                    IF i = 1 THEN Calculate(a, best[i], FALSE) ELSE best[i]],
     m_suit_threshold |-> CalcDist(a, best[1]),
     fnc |-> f]

\* variant: the surplus entries are dropped from the head
CheckBest_Trim_Head(a, best, max_best, f) ==
    [m_best |-> [i \in 1..Min2(Len(best), max_best) |->
                    IF i = Min2(Len(best), max_best)
                    THEN Calculate(a, best[Len(best)], FALSE)
                    ELSE best[i + Len(best) - Min2(Len(best), max_best)]],
     m_suit_threshold |-> CalcDist(a, best[Len(best)]),
     fnc |-> f]

\* the end of CheckBest: trim the tail, then the threshold from the last entry
CheckBest_Trim(a, best, max_best, f) ==
    [m_best |-> [i \in 1..Min2(Len(best), max_best) |->
                    IF i = Min2(Len(best), max_best)
                    THEN Calculate(a, best[i], FALSE) ELSE best[i]],
     m_suit_threshold |-> CalcDist(a, best[Min2(Len(best), max_best)]),
     fnc |-> f]

\* variant: a full pool turns every tree away
CheckBest_Calculated_FullRejects(a, best, threshold, f, max_best) ==
    IF Len(best) >= max_best
    THEN [m_best |-> best, m_suit_threshold |-> threshold, fnc |-> f]
    ELSE CheckBest_Trim(a,
             CheckBest_Scan(a, best, 1, f, MatchPositions(f.values),
                            CalcDist_Calculated(a, f)),
             max_best, f)

\* CheckBest for a non-empty pool; f is fnc after fnc.Calculate()
CheckBest_Calculated(a, best, threshold, f, max_best) ==
    IF Len(best) >= max_best
       /\ MetricsCompare(CalcDist_Calculated(a, f), threshold) = "greater"
    THEN [m_best |-> best, m_suit_threshold |-> threshold, fnc |-> f]
    ELSE CheckBest_Trim(a,
             CheckBest_Scan(a, best, 1, f, MatchPositions(f.values),
                            CalcDist_Calculated(a, f)),
             max_best, f)

\* SearchTask::CheckBest: the pool, the threshold and fnc as the call leaves them
CheckBest(a, best, threshold, f, max_best) ==
    IF best = <<>>
    THEN [m_best |-> <<CopyNode(f)>>, m_suit_threshold |-> threshold, fnc |-> f]
    ELSE CheckBest_Calculated(a, best, threshold, Calculate(a, f, FALSE), max_best)

----------------------------------------------------------------------------
(* SearchTask: one step                                                     *)

\* SearchIterate after CheckBest returned cb
SearchIterate_Checked(t, cb) ==
    [ok |-> TRUE,
     task |-> [t EXCEPT !.m_fn = cb.fnc, !.m_best = cb.m_best,
                        !.m_suit_threshold = cb.m_suit_threshold,
                        !.m_count = t.m_count + 1]]

\* variant: a step whose Iterate returned false is counted too
SearchIterate_Iterated_Counted(a, t, r) ==
    IF ~r.ok THEN [ok |-> FALSE, task |-> [t EXCEPT !.m_fn = r.node, !.m_count = t.m_count + 1]]
    ELSE SearchIterate_Checked(t, CheckBest(a, t.m_best, t.m_suit_threshold, r.node,
                                            t.m_settings.max_best))

\* SearchIterate after m_fn.Iterate returned r
SearchIterate_Iterated(a, t, r) ==
    IF ~r.ok THEN [ok |-> FALSE, task |-> [t EXCEPT !.m_fn = r.node]]
    ELSE SearchIterate_Checked(t, CheckBest(a, t.m_best, t.m_suit_threshold, r.node,
                                            t.m_settings.max_best))

\* SearchTask::SearchIterate
SearchIterate(a, sc, ss, t) ==
    SearchIterate_Iterated(a, t, Iterate(a, sc, ss, t.m_fn, t.m_settings.max_depth, 0))

----------------------------------------------------------------------------
(* JSON values (the nlohmann::json value a document parses to)              *)

JUnsigned(v) == [t |-> "number_unsigned", v |-> v]
JBoolean(v) == [t |-> "boolean", v |-> v]
JString(v) == [t |-> "string", v |-> v]
JObject(v) == [t |-> "object", v |-> v]
JArray(v) == [t |-> "array", v |-> v]

\* j.find(key) != j.end(): only an object has keys
Has(j, key) == j.t = "object" /\ key \in DOMAIN j.v
is_number(j) == j.t \in {"number_unsigned", "number_integer", "number_float"}
is_number_unsigned(j) == j.t = "number_unsigned"
is_boolean(j) == j.t = "boolean"
is_object(j) == j.t = "object"
is_array(j) == j.t = "array"

RECURSIVE NodeToJSON(_, _)
\* FuncNode::ToJSON
NodeToJSON(a, n) ==
    CASE n.arity = 0 ->
            JObject([arity |-> JUnsigned(n.arity), num |-> JUnsigned(n.num),
                     name |-> JString(Str(Get(a, n.arity, n.num)))])
      [] n.arity = 1 ->
            JObject([arity |-> JUnsigned(n.arity), num |-> JUnsigned(n.num),
                     name |-> JString(Str(Get(a, n.arity, n.num))),
                     arg1 |-> NodeToJSON(a, n.arg1[1])])
      [] OTHER ->
            JObject([arity |-> JUnsigned(n.arity), num |-> JUnsigned(n.num),
                     name |-> JString(Str(Get(a, n.arity, n.num))),
                     arg1 |-> NodeToJSON(a, n.arg1[1]),
                     arg2 |-> NodeToJSON(a, n.arg2[1])])

RECURSIVE NodeFromJSON(_, _)

\* FuncNode::FromJSON from the second child on; n holds what was parsed so far
NodeFromJSON_Arg2(n, j_root) ==
    IF ~(n.arity > 1) THEN [ok |-> TRUE, node |-> n]
    ELSE IF ~Has(j_root, "arg2") \/ ~is_object(j_root.v.arg2)
         THEN [ok |-> FALSE, node |-> [n EXCEPT !.arg2 = <<NewNode>>]]
         ELSE [ok |-> NodeFromJSON(NewNode, j_root.v.arg2).ok,
               node |-> [n EXCEPT !.arg2 = <<NodeFromJSON(NewNode, j_root.v.arg2).node>>]]

\* FuncNode::FromJSON after the first child was parsed with result r1
NodeFromJSON_Arg1Parsed(n, j_root, r1) ==
    IF ~r1.ok THEN [ok |-> FALSE, node |-> [n EXCEPT !.arg1 = <<r1.node>>]]
    ELSE NodeFromJSON_Arg2([n EXCEPT !.arg1 = <<r1.node>>], j_root)

\* FuncNode::FromJSON from the first child on
NodeFromJSON_Arg1(n, j_root) ==
    IF ~(n.arity > 0) THEN NodeFromJSON_Arg2(n, j_root)
    ELSE IF ~Has(j_root, "arg1") \/ ~is_object(j_root.v.arg1)
         THEN [ok |-> FALSE, node |-> [n EXCEPT !.arg1 = <<NewNode>>]]
         ELSE NodeFromJSON_Arg1Parsed(n, j_root, NodeFromJSON(NewNode, j_root.v.arg1))

\* FuncNode::FromJSON after the reset of the atom index and the children
NodeFromJSON_Reset(n, j_root) ==
    IF ~Has(j_root, "arity") \/ ~is_number_unsigned(j_root.v.arity)
    THEN [ok |-> FALSE, node |-> n]
    ELSE IF ~Has(j_root, "num") \/ ~is_number_unsigned(j_root.v.num)
         THEN [ok |-> FALSE, node |-> [n EXCEPT !.arity = j_root.v.arity.v]]
         ELSE NodeFromJSON_Arg1([n EXCEPT !.arity = j_root.v.arity.v,
                                          !.num = j_root.v.num.v], j_root)

\* FuncNode::FromJSON: the cache of the node is not touched
NodeFromJSON(n, j_root) ==
    NodeFromJSON_Reset([n EXCEPT !.arity = 0, !.num = 0, !.arg1 = <<>>, !.arg2 = <<>>],
                       j_root)

\* SearchTask::ToJSON
ToJSON(a, t) ==
    JObject([settings |-> JObject([max_best |-> JUnsigned(t.m_settings.max_best),
                                   max_depth |-> JUnsigned(t.m_settings.max_depth)]),
             count |-> JUnsigned(t.m_count),
             done |-> JBoolean(t.m_done),
             suit_threshold |->
                 JObject([distance |-> JUnsigned(t.m_suit_threshold.distance),
                          max_level |-> JUnsigned(t.m_suit_threshold.max_level),
                          functions_count |-> JUnsigned(t.m_suit_threshold.functions_count),
                          functions_unique |-> JUnsigned(t.m_suit_threshold.functions_unique)]),
             current_fn |-> NodeToJSON(a, t.m_fn),
             best |-> JArray([i \in 1..Len(t.m_best) |-> NodeToJSON(a, t.m_best[i])])])

RECURSIVE FromJSON_BestFrom(_, _, _)
\* the loop over j["best"] from element i on
FromJSON_BestFrom(t, elems, i) ==
    IF i > Len(elems) THEN [ok |-> TRUE, task |-> t]
    ELSE IF ~NodeFromJSON(NewNode, elems[i]).ok
         THEN [ok |-> FALSE,
               task |-> [t EXCEPT !.m_best = Append(t.m_best,
                                                    NodeFromJSON(NewNode, elems[i]).node)]]
         ELSE FromJSON_BestFrom(
                  [t EXCEPT !.m_best = Append(t.m_best, NodeFromJSON(NewNode, elems[i]).node)],
                  elems, i + 1)

\* FromJSON from m_best.clear() on
FromJSON_Best(t, j) ==
    IF ~Has(j, "best") THEN [ok |-> TRUE, task |-> [t EXCEPT !.m_best = <<>>]]
    ELSE IF ~is_array(j.v.best) THEN [ok |-> FALSE, task |-> [t EXCEPT !.m_best = <<>>]]
    ELSE FromJSON_BestFrom([t EXCEPT !.m_best = <<>>], j.v.best.v, 1)

\* FromJSON after m_fn.FromJSON returned r
FromJSON_FnParsed(t, j, r) ==
    IF ~r.ok THEN [ok |-> FALSE, task |-> [t EXCEPT !.m_fn = r.node]]
    ELSE FromJSON_Best([t EXCEPT !.m_fn = r.node], j)

\* FromJSON from "current_fn" on
FromJSON_Fn(t, j) ==
    IF ~Has(j, "current_fn") \/ ~is_object(j.v.current_fn)
    THEN [ok |-> FALSE, task |-> t]
    ELSE FromJSON_FnParsed(t, j, NodeFromJSON(t.m_fn, j.v.current_fn))

\* variant: the threshold is checked but not assigned
FromJSON_ThresholdMembers_Unassigned(t, j, jt) ==
    IF \/ ~Has(jt, "distance") \/ ~is_number(jt.v.distance)
       \/ ~Has(jt, "max_level") \/ ~is_number(jt.v.max_level)
       \/ ~Has(jt, "functions_count") \/ ~is_number(jt.v.functions_count)
       \/ ~Has(jt, "functions_unique") \/ ~is_number(jt.v.functions_unique)
    THEN [ok |-> FALSE, task |-> t]
    ELSE FromJSON_Fn(t, j)

\* FromJSON: the four members of "suit_threshold", then the assignment
FromJSON_ThresholdMembers(t, j, jt) ==
    IF \/ ~Has(jt, "distance") \/ ~is_number(jt.v.distance)
       \/ ~Has(jt, "max_level") \/ ~is_number(jt.v.max_level)
       \/ ~Has(jt, "functions_count") \/ ~is_number(jt.v.functions_count)
       \/ ~Has(jt, "functions_unique") \/ ~is_number(jt.v.functions_unique)
    THEN [ok |-> FALSE, task |-> t]
    ELSE FromJSON_Fn([t EXCEPT !.m_suit_threshold =
                          SuitabilityMetrics(jt.v.distance.v, jt.v.max_level.v,
                                             jt.v.functions_count.v,
                                             jt.v.functions_unique.v)], j)

\* FromJSON from "suit_threshold" on
FromJSON_Threshold(t, j) ==
    IF ~Has(j, "suit_threshold") \/ ~is_object(j.v.suit_threshold)
    THEN [ok |-> FALSE, task |-> t]
    ELSE FromJSON_ThresholdMembers(t, j, j.v.suit_threshold)

\* variant: the done flag is set whatever the document says
FromJSON_Done_AlwaysTrue(t, j) ==
    IF ~Has(j, "done") \/ ~is_boolean(j.v.done) THEN [ok |-> FALSE, task |-> t]
    ELSE FromJSON_Threshold([t EXCEPT !.m_done = TRUE], j)

\* FromJSON from "done" on
FromJSON_Done(t, j) ==
    IF ~Has(j, "done") \/ ~is_boolean(j.v.done) THEN [ok |-> FALSE, task |-> t]
    ELSE FromJSON_Threshold([t EXCEPT !.m_done = j.v.done.v], j)

\* variant: the count is checked but not assigned
FromJSON_Count_Unassigned(t, j) ==
    IF ~Has(j, "count") \/ ~is_number(j.v.count) THEN [ok |-> FALSE, task |-> t]
    ELSE FromJSON_Done(t, j)

\* FromJSON from "count" on
FromJSON_Count(t, j) ==
    IF ~Has(j, "count") \/ ~is_number(j.v.count) THEN [ok |-> FALSE, task |-> t]
    ELSE FromJSON_Done([t EXCEPT !.m_count = j.v.count.v], j)

\* FromJSON from settings.max_depth on
FromJSON_MaxDepth(t, j, js) ==
    IF ~Has(js, "max_depth") \/ ~is_number(js.v.max_depth) THEN [ok |-> FALSE, task |-> t]
    ELSE FromJSON_Count([t EXCEPT !.m_settings.max_depth = js.v.max_depth.v], j)

\* FromJSON from settings.max_best on
FromJSON_MaxBest(t, j, js) ==
    IF ~Has(js, "max_best") \/ ~is_number(js.v.max_best) THEN [ok |-> FALSE, task |-> t]
    ELSE FromJSON_MaxDepth([t EXCEPT !.m_settings.max_best = js.v.max_best.v], j, js)

\* SearchTask::FromJSON of the value the document parses to: the result and the task
\* as the call leaves it (every assignment made before a failure stays)
FromJSON(t, j) ==
    IF ~is_object(j) THEN [ok |-> FALSE, task |-> t]
    ELSE IF ~Has(j, "settings") \/ ~is_object(j.v.settings) THEN [ok |-> FALSE, task |-> t]
    ELSE FromJSON_MaxBest(t, j, j.v.settings)

RECURSIVE BestEq(_, _, _)
\* std::list<FN_t>::operator== from position i on
BestEq(b, o, i) ==
    IF Len(b) # Len(o) THEN FALSE
    ELSE IF i > Len(b) THEN TRUE
    ELSE NodeEq(b[i], o[i]) /\ BestEq(b, o, i + 1)

\* SearchTask::operator== (both tasks share m_atoms and m_target in this model)
TaskEq(t, o) ==
    /\ t.m_settings = o.m_settings
    /\ NodeEq(t.m_fn, o.m_fn)
    /\ t.m_count = o.m_count
    /\ BestEq(t.m_best, o.m_best, 1)
    /\ MetricsEq(t.m_suit_threshold, o.m_suit_threshold)
    /\ t.m_done = o.m_done

----------------------------------------------------------------------------
(* The search driver, stepped as the unit test steps it, run by the loop of  *)
(* Search(), and saved and reloaded into a fresh driver:                     *)
(*   task.SearchIterate(); new_task.FromJSON(task.ToJSON().dump());          *)

\* The driver evaluates every tree it visits, so every bucket holds an atom.
DriverLibraries ==
    {[arg0 |-> a0, arg1 |-> <<AF_NOT>>, arg2 |-> a2] :
        a0 \in {<<AF_ARG_X>>, <<AF_ARG_X, AF_CONST(1)>>},
        a2 \in {<<AF_AND>>, <<AF_SUM>>}}

DriverDepths == 0..TestMaxDepth

Init ==
    /\ atoms \in DriverLibraries
    /\ skip_constant \in BOOLEAN
    /\ skip_symmetric \in BOOLEAN
    /\ max_depth \in DriverDepths
    /\ fnc = NewNode
    /\ iter_result = "none"
    /\ calls = 0
    /\ yielded = {}
    /\ other = NewNode
    /\ \E mb \in 1..MaxBest, g \in IndeterminateValues, new_g \in IndeterminateValues :
          /\ task = SearchTask(Settings(mb, max_depth), g)
          /\ new_task = SearchTask(Settings(mb, max_depth), new_g)
    /\ step_result = "none"
    /\ new_step_result = "none"
    /\ loaded = "no"
    /\ offered = {}
    /\ document = "none"
    /\ MetricsIdle
    /\ RangeSetIdle
    /\ ThreadsIdle

\* task and the return value after a SearchIterate call that returned r
StepResult(r) ==
    /\ task' = r.task
    /\ step_result' = IF r.ok THEN "true" ELSE "false"

\* new_task and the return value after a SearchIterate call that returned r
NewStepResult(r) ==
    /\ new_task' = r.task
    /\ new_step_result' = IF r.ok THEN "true" ELSE "false"

\* offered collects the trees handed to CheckBest: m_fn after a successful step
Offer ==
    offered' = IF step_result' = "true" THEN offered \cup {CopyNode(task'.m_fn)}
               ELSE offered

\* task.SearchIterate() called directly
SearchIterateCall ==
    /\ loaded = "no"
    /\ StepResult(SearchIterate(atoms, skip_constant, skip_symmetric, task))
    /\ Offer
    /\ UNCHANGED <<config_vars, enumerator_vars, new_task, new_step_result, loaded,
                   document, metrics_vars, rangeset_vars, thread_vars>>

\* task after one pass of the while loop of Search() in which SearchIterate returned r
SearchResult(r) ==
    /\ task' = [r.task EXCEPT !.m_done = IF r.ok THEN r.task.m_done ELSE TRUE]
    /\ step_result' = IF r.ok THEN "true" ELSE "false"

\* one pass of the while loop of Search()
SearchPass ==
    /\ loaded = "no"
    /\ ~task.m_done
    /\ SearchResult(SearchIterate(atoms, skip_constant, skip_symmetric, task))
    /\ Offer
    /\ UNCHANGED <<config_vars, enumerator_vars, new_task, new_step_result, loaded,
                   document, metrics_vars, rangeset_vars, thread_vars>>

\* new_task and the result after a FromJSON call that returned r
LoadResult(r) ==
    /\ new_task' = r.task
    /\ loaded' = IF r.ok THEN "ok" ELSE "failed"

\* new_task.FromJSON(task.ToJSON().dump()) on the fresh driver new_task
SaveLoad ==
    /\ loaded = "no"
    /\ document' = "intact"
    /\ LoadResult(FromJSON(new_task, ToJSON(atoms, task)))
    /\ UNCHANGED <<config_vars, enumerator_vars, task, step_result, new_step_result,
                   offered, metrics_vars, rangeset_vars, thread_vars>>

\* the ways a saved document is damaged before it is loaded
Damages ==
    {"discarded", "count_not_a_number", "no_done", "fn_without_num",
     "best_without_arity", "fn_arity_out_of_range", "fn_num_out_of_range"}

\* the object j without the key k
Without(j, k) == JObject([key \in DOMAIN j.v \ {k} |-> j.v[key]])

\* the array "best" of j with its last element, if any, stripped of "arity"
BestWithoutArity(j) ==
    JArray([i \in 1..Len(j.v) |->
               IF i = Len(j.v) THEN Without(j.v[i], "arity") ELSE j.v[i]])

\* the number of atoms of the library a with the arity the tree j states
BucketSize(a, j) ==
    CASE j.v.arity.v = 0 -> Len(a.arg0)
      [] j.v.arity.v = 1 -> Len(a.arg1)
      [] OTHER -> Len(a.arg2)

\* the value the document j parses to after the damage dmg; json::parse returns a
\* discarded value for a text that is not JSON
Damaged(a, j, dmg) ==
    CASE dmg = "discarded" -> [t |-> "discarded"]
      [] dmg = "count_not_a_number" -> JObject([j.v EXCEPT !.count = JString("many")])
      [] dmg = "no_done" -> Without(j, "done")
      [] dmg = "fn_without_num" ->
            JObject([j.v EXCEPT !.current_fn = Without(j.v.current_fn, "num")])
      [] dmg = "best_without_arity" ->
            JObject([j.v EXCEPT !.best = BestWithoutArity(j.v.best)])
      [] dmg = "fn_arity_out_of_range" ->
            JObject([j.v EXCEPT !.current_fn =
                        JObject([j.v.current_fn.v EXCEPT !.arity = JUnsigned(3)])])
      [] OTHER ->
            JObject([j.v EXCEPT !.current_fn =
                        JObject([j.v.current_fn.v EXCEPT
                                    !.num = JUnsigned(BucketSize(a, j.v.current_fn))])])

\* new_task.FromJSON(text) where text is the saved document of task after a damage
LoadDamaged ==
    /\ loaded = "no"
    /\ document' \in Damages
    /\ LoadResult(FromJSON(new_task, Damaged(atoms, ToJSON(atoms, task), document')))
    /\ UNCHANGED <<config_vars, enumerator_vars, task, step_result, new_step_result,
                   offered, metrics_vars, rangeset_vars, thread_vars>>

\* after the reload of the intact document both drivers make the same call
\* SearchIterate()
ResumedStep ==
    /\ loaded = "ok"
    /\ document = "intact"
    /\ StepResult(SearchIterate(atoms, skip_constant, skip_symmetric, task))
    /\ NewStepResult(SearchIterate(atoms, skip_constant, skip_symmetric, new_task))
    /\ Offer
    /\ UNCHANGED <<config_vars, enumerator_vars, loaded, document, metrics_vars, rangeset_vars,
                   thread_vars>>

Next == SearchIterateCall \/ SearchPass \/ SaveLoad \/ ResumedStep

\* C35: exhaustion is absorbing: once SearchIterate returned false (its Iterate
\* returned false) every later SearchIterate returns false and leaves the pool,
\* the threshold and the iteration count unchanged.
C35_ExhaustionAbsorbing ==
    [][step_result = "false" =>
          /\ step_result' = "false"
          /\ task'.m_best = task.m_best
          /\ task'.m_suit_threshold = task.m_suit_threshold
          /\ task'.m_count = task.m_count]_vars

\* C35 witness: SearchIterate returned false on a driver that made steps and was
\* not marked done, so that SearchIterate can be called again
C35_Witness ==
    /\ step_result = "false"
    /\ task.m_count > 1
    /\ task.m_best # <<>>
    /\ ~task.m_done

Spec == Init /\ [][Next]_vars

\* the driver stepped, then a damaged document of it loaded into the fresh driver
NextLoad == SearchIterateCall \/ LoadDamaged

SpecLoad == Init /\ [][NextLoad]_vars

----------------------------------------------------------------------------
(* Properties of the driver                                                 *)

RECURSIVE EnumerationFrom(_, _, _, _, _)

\* the trees of the enumeration after a call Iterate on n returned r
EnumerationFrom_Iterated(a, sc, ss, r, maxd) ==
    IF r.ok THEN {CopyNode(r.node)} \cup EnumerationFrom(a, sc, ss, r.node, maxd)
    ELSE {}

\* the trees that Iterate yields from n on until it returns false
EnumerationFrom(a, sc, ss, n, maxd) ==
    EnumerationFrom_Iterated(a, sc, ss, Iterate(a, sc, ss, n, maxd, 0), maxd)

\* the enumeration: the initial tree and every tree Iterate yields after it
Enumeration(a, sc, ss, maxd) == {NewNode} \cup EnumerationFrom(a, sc, ss, NewNode, maxd)

\* the arity-0 bucket of the library a lists its non-constant atoms before its
\* constants, as AtomFuncs::Add builds it
NonConstantsFirst(a) ==
    \A i \in 1..Len(a.arg0), j \in 1..Len(a.arg0) :
        (a.arg0[i].cls = "AF_CONST" /\ a.arg0[j].cls # "AF_CONST") => j < i

\* the root of n or a node below it is of arity >= 1 and has a constant output
RECURSIVE HasConstantFunction(_, _)
HasConstantFunction(a, n) ==
    /\ n.arity > 0
    /\ \/ IsConstantVector(Values(a, n))
       \/ HasConstantFunction(a, n.arg1[1])
       \/ n.arity = 2 /\ HasConstantFunction(a, n.arg2[1])

\* C36: skip-constant removes only constant trees: for a library whose arity-0
\* bucket lists non-constant atoms before constants, every tree yielded with both
\* flags off whose output vector is not constant is also yielded with skip-constant
\* on (skip-symmetric off), even if it contains a sub-expression of depth >= 1 whose
\* own output is constant.
C36_SkipConstantKeepsNonConstant ==
    (iter_result = "true" /\ ~skip_constant /\ ~skip_symmetric
        /\ atoms \in FullLibraries /\ NonConstantsFirst(atoms)
        /\ ~IsConstantVector(Values(atoms, fnc)))
        => CopyNode(fnc) \in Enumeration(atoms, TRUE, FALSE, max_depth)

\* the same for the trees in which no function node has a constant output
SkipConstantKeepsConstantFree ==
    (iter_result = "true" /\ ~skip_constant /\ ~skip_symmetric
        /\ atoms \in FullLibraries
        /\ ~IsConstantVector(Values(atoms, fnc))
        /\ ~HasConstantFunction(atoms, fnc))
        => CopyNode(fnc) \in Enumeration(atoms, TRUE, FALSE, max_depth)

----------------------------------------------------------------------------
(* Two enumerators side by side over one library: fnc is a                  *)
(* FuncNode<..., false, false>, other a FuncNode<..., false, true>          *)

PairConfigs ==
    {[atoms |-> l, depth |-> d] : l \in FullLibraries, d \in 0..MaxDepth}
    \cup {[atoms |-> MakeAtoms, depth |-> TestMaxDepth]}

InitPair ==
    /\ \E c \in PairConfigs :
          /\ atoms = c.atoms
          /\ max_depth = c.depth
    /\ skip_constant = FALSE
    /\ skip_symmetric = TRUE
    /\ fnc = NewNode
    /\ iter_result = "none"
    /\ calls = 0
    /\ yielded = {}
    /\ other = NewNode
    /\ DriverIdle
    /\ MetricsIdle
    /\ RangeSetIdle
    /\ ThreadsIdle

RECURSIVE CatchUp(_, _, _, _, _, _)

\* CatchUp after o.Iterate(maxd) returned r
CatchUp_Iterated(a, sc, ss, o, r, serial, maxd) ==
    IF r.ok THEN CatchUp(a, sc, ss, r.node, serial, maxd) ELSE o

\* while (o.SerialNumber() < serial and o.Iterate(maxd)) {}
CatchUp(a, sc, ss, o, serial, maxd) ==
    IF SerialNumber(a, o) >= serial THEN o
    ELSE CatchUp_Iterated(a, sc, ss, o, Iterate(a, sc, ss, o, maxd, 0), serial, maxd)

\* other after fnc.Iterate(max_depth) returned r
FollowResult(r) ==
    other' = IF r.ok
             THEN CatchUp(atoms, skip_constant, skip_symmetric, other,
                          SerialNumber(atoms, r.node), max_depth)
             ELSE other

\* fnc, without pruning, makes one Iterate call; other, with the pruning flags, is
\* iterated until its serial number is not below that of fnc
PairStep ==
    /\ iter_result # "false"
    /\ IterateResult(Iterate(atoms, FALSE, FALSE, fnc, max_depth, 0))
    /\ FollowResult(Iterate(atoms, FALSE, FALSE, fnc, max_depth, 0))
    /\ calls' = calls + 1
    /\ UNCHANGED <<config_vars, yielded, driver_vars, metrics_vars, rangeset_vars,
                   thread_vars>>

NextPair == PairStep

SpecPair == InitPair /\ [][NextPair]_vars

\* a tree yielded without pruning that satisfies the ordering rule is the tree the
\* enumerator with skip-symmetric stands on: it was yielded there as well
OrderedTreeKept ==
    (iter_result = "true" /\ SymmetricOrdered(atoms, fnc)) => NodeEq(other, fnc)

\* both enumerators yield their trees in the order of the serial numbers
YieldedInSerialOrder ==
    iter_result' = "true"
        => /\ SerialNumber(atoms, fnc') > SerialNumber(atoms, fnc)
           /\ ~NodeEq(other', other)
                  => SerialNumber(atoms, other') > SerialNumber(atoms, other)

\* C37: skip-symmetric never drops a tree that satisfies the ordering rule: every
\* tree yielded with both flags off in which every commutative binary node has
\* sL <= sR (sL < sR when the atom is idempotent) is also yielded with
\* skip-symmetric on (skip-constant off), in the same relative order.
C37_SkipSymmetricKeepsOrdered == []OrderedTreeKept /\ [][YieldedInSerialOrder]_vars

\* C37 witness: the enumerator without pruning stands on a tree of depth 2 over a
\* commutative atom with two function children that satisfies the rule, after trees
\* that do not, and the enumerator with skip-symmetric stands on the same tree
C37_Witness ==
    /\ iter_result = "true"
    /\ calls > 20
    /\ fnc.arity = 2 /\ fnc.arg1[1].arity > 0 /\ fnc.arg2[1].arity = 2
    /\ Commutative(atoms.arg2[fnc.num + 1])
    /\ SymmetricOrdered(atoms, fnc)
    /\ NodeEq(other, fnc)

\* C4: when a step returns false, every tree of the enumeration, the initial tree
\* with serial 0 included, has been offered to the pool (CheckBest) by some step.
C4_EveryTreeOffered ==
    (loaded = "no" /\ step_result = "false")
        => \A t \in Enumeration(atoms, skip_constant, skip_symmetric,
                                task.m_settings.max_depth) : t \in offered

\* every tree that Iterate yields is offered; only the initial tree is left out
YieldedTreesOffered ==
    (loaded = "no" /\ step_result = "false")
        => /\ \A t \in EnumerationFrom(atoms, skip_constant, skip_symmetric, NewNode,
                                       task.m_settings.max_depth) : t \in offered
           /\ NewNode \notin offered

\* C8: after any number of successful steps, loading ToJSON of the driver into a
\* fresh driver succeeds and gives a driver equal to it (settings, cursor, count,
\* pool in order, threshold, done flag).
C8_JSONRoundTrip ==
    (document = "intact" /\ new_step_result = "none" /\ step_result # "false")
        => loaded = "ok" /\ TaskEq(new_task, task)

C8_Witness ==
    /\ document = "intact"
    /\ loaded = "ok" /\ new_step_result = "none" /\ step_result = "true"
    /\ task.m_count >= 3
    /\ Len(task.m_best) >= 2
    /\ task.m_fn.arity = 2

\* C9: after the reload, every step returns the same in both drivers and leaves them
\* with equal cursor, pool, threshold, iteration count and done flag.
C9_PauseResume ==
    (loaded = "ok" /\ new_step_result # "none")
        => new_step_result = step_result /\ TaskEq(task, new_task)

C9_Witness ==
    /\ loaded = "ok" /\ new_step_result = "true" /\ step_result = "true"
    /\ new_task.m_count >= 3
    /\ Len(new_task.m_best) >= 2
    /\ new_task.m_fn.arity = 2

\* C10: any two distinct pool entries have different output vectors and different
\* match-position sets.
C10_PoolEntriesDistinct ==
    \A i \in 1..Len(task.m_best), j \in 1..Len(task.m_best) :
        i # j => /\ Values(atoms, task.m_best[i]) # Values(atoms, task.m_best[j])
                 /\ MatchPositions(Values(atoms, task.m_best[i]))
                        # MatchPositions(Values(atoms, task.m_best[j]))

C10_Witness ==
    /\ step_result = "true"
    /\ Len(task.m_best) >= 2
    /\ task.m_count > Len(task.m_best) + 1

\* C16: a FromJSON call that returns false leaves the driver as it was before the
\* call: settings, iteration count, done flag, threshold, cursor and pool.
C16_FailedLoadChangesNothing ==
    [][loaded' = "failed" => TaskEq(new_task', new_task)]_vars

\* a failure found before the first assignment (a text that is not JSON) leaves the
\* driver as it was
EarlyFailureChangesNothing ==
    [][(loaded' = "failed" /\ document' = "discarded")
          => TaskEq(new_task', new_task)]_vars

\* every damage but the two out-of-range ones makes FromJSON fail, unless the pool is
\* empty and there is no tree in "best" to damage
DamagedDocumentRejected ==
    (document \in Damages \ {"fn_arity_out_of_range", "fn_num_out_of_range"}
        /\ ~(document = "best_without_arity" /\ task.m_best = <<>>))
        => loaded = "failed"

RECURSIVE ValidAtoms(_, _)
\* every node of n has an arity of 0, 1 or 2 and an index inside the bucket of the
\* library a for that arity
ValidAtoms(a, n) ==
    /\ n.arity \in {0, 1, 2}
    /\ n.num < (CASE n.arity = 0 -> Len(a.arg0)
                  [] n.arity = 1 -> Len(a.arg1)
                  [] OTHER -> Len(a.arg2))
    /\ \A i \in 1..Len(n.arg1) : ValidAtoms(a, n.arg1[i])
    /\ \A i \in 1..Len(n.arg2) : ValidAtoms(a, n.arg2[i])

\* C17: FuncNode::FromJSON never returns true with a node whose arity is outside
\* {0, 1, 2} or whose index is outside the bucket of the library: a document with
\* such a node makes it return false.
C17_LoadedTreeReferencesAtoms ==
    loaded = "ok" => ValidAtoms(atoms, new_task.m_fn)

----------------------------------------------------------------------------
(* Properties of the pool                                                   *)

\* the suitability key of a tree, computed without any cache
Suitability(n) == CalcDist(atoms, CopyNode(n))

\* operator> of SuitabilityMetrics
MetricsGreater(m, o) == MetricsCompare(m, o) = "greater"

\* greater in the lexicographic order over (distance, max_level, functions_count,
\* functions_unique)
LexGreater(m, o) ==
    \/ m.distance > o.distance
    \/ /\ m.distance = o.distance
       /\ \/ m.max_level > o.max_level
          \/ /\ m.max_level = o.max_level
             /\ \/ m.functions_count > o.functions_count
                \/ /\ m.functions_count = o.functions_count
                   /\ m.functions_unique > o.functions_unique

\* worse: greater by the comparison of the code or by the four-field order
Worse(m, o) == MetricsGreater(m, o) \/ LexGreater(m, o)

\* the pool of task is full
PoolFull(t) == Len(t.m_best) = t.m_settings.max_best

\* a step of task that returned true: CheckBest was called with the tree task'.m_fn
Offered == step_result' = "true" /\ task'.m_count = task.m_count + 1

\* the distance of the tree n to the target: the number of positions at which its
\* output differs from the target's
Distance(n) == Compare(Values(atoms, n))

\* C38: for a target whose distance is the number of differing positions, after any
\* sequence of SearchIterate calls with max_best >= 1 the first pool entry has a
\* distance that is not above the distance of any tree offered so far.
C38_FirstEntryIsClosest ==
    (loaded = "no" /\ task.m_best # <<>>)
        => \A t \in offered : Distance(task.m_best[1]) <= Distance(t)

\* C38 witness: the first entry is a binary tree that took the place of the first
\* tree offered, it is closer to the target than another tree offered, and the
\* pool is full
C38_Witness ==
    /\ loaded = "no" /\ step_result = "true"
    /\ PoolFull(task)
    /\ task.m_best[1].arity = 2
    /\ \E t \in offered : Distance(task.m_best[1]) < Distance(t)
    /\ \E i \in 1..Len(task.m_best) : Distance(task.m_best[1]) < Distance(task.m_best[i])

\* C11, first part: after a CheckBest call that leaves the pool full no entry is
\* worse than the stored threshold
NoEntryWorseThanThreshold ==
    (step_result = "true" /\ PoolFull(task))
        => \A i \in 1..Len(task.m_best) :
               ~Worse(Suitability(task.m_best[i]), task.m_suit_threshold)

\* C11, second part: offering a tree worse than the threshold to a full pool changes
\* neither the pool nor the threshold
WorseOfferIsNoOp ==
    (PoolFull(task) /\ Offered /\ Worse(Suitability(task'.m_fn), task.m_suit_threshold))
        => /\ BestEq(task'.m_best, task.m_best, 1)
           /\ MetricsEq(task'.m_suit_threshold, task.m_suit_threshold)

InsertedAndTailDropped(b, best, i, f, max_best) ==
    BestEq(b,
           SubSeq(InsertBefore(best, i, f), 1, Min2(Len(best) + 1, max_best)),
           1)

\* a step changes the pool only by one insertion of the offered tree, followed by
\* dropping entries from the tail until the size is max_best
PoolChangeDropsTail ==
    Offered => \/ BestEq(task'.m_best, task.m_best, 1)
               \/ \E i \in 1..(Len(task.m_best) + 1) :
                      InsertedAndTailDropped(task'.m_best, task.m_best, i, task'.m_fn,
                                             task.m_settings.max_best)

\* C13: after every step the pool holds at most max_best entries (max_best >= 1);
\* when an insertion makes the size exceed max_best, entries are dropped from the
\* tail only, until the size is max_best.
C13_PoolBounded ==
    [](Len(task.m_best) <= task.m_settings.max_best) /\ [][PoolChangeDropsTail]_vars

RECURSIVE StepsFrom(_, _)
\* the driver t after k further calls of SearchIterate
StepsFrom(t, k) ==
    IF k = 0 THEN t
    ELSE StepsFrom(SearchIterate(atoms, skip_constant, skip_symmetric, t).task, k - 1)

\* the pool as it was before the last successful step
PoolBeforeLastStep ==
    StepsFrom(SearchTask(task.m_settings, 0), task.m_count - 1).m_best

\* the last step inserted its tree into a full pool of two or more entries, and the
\* pool is back at max_best entries
C13_Witness ==
    /\ loaded = "no" /\ step_result = "true"
    /\ task.m_settings.max_best >= 2
    /\ Len(PoolBeforeLastStep) = task.m_settings.max_best
    /\ Len(task.m_best) = task.m_settings.max_best
    /\ \E i \in 1..Len(task.m_best) : NodeEq(task.m_best[i], task.m_fn)

\* the pool without its last entry
RemoveLast(best) == SubSeq(best, 1, Len(best) - 1)

\* the pool of t after its last entry was removed, max_best lowered by 1 and
\* CheckBest called with the removed tree
Readmitted(t) ==
    CheckBest(atoms, RemoveLast(t.m_best), t.m_suit_threshold,
              CopyNode(t.m_best[Len(t.m_best)]), t.m_settings.max_best - 1).m_best

\* C15: in every pool state the driver reaches, removing the last entry, lowering
\* max_best by 1 and offering the removed tree to CheckBest puts the tree back at the
\* last position: the pool is again what it was.
C15_ReadmitLast ==
    task.m_best # <<>> => BestEq(Readmitted(task), task.m_best, 1)

\* the same for the pools that hold fewer than max_best entries, where the pool has
\* room for the removed tree after max_best was lowered
ReadmitLastWithRoom ==
    (task.m_best # <<>> /\ Len(task.m_best) < task.m_settings.max_best)
        => BestEq(Readmitted(task), task.m_best, 1)

\* what the call does: the removed tree is pushed into an empty pool and is left out
\* of every other pool
ReadmitLastLeftOut ==
    task.m_best # <<>> =>
        BestEq(Readmitted(task),
               IF Len(task.m_best) = 1 THEN task.m_best ELSE RemoveLast(task.m_best), 1)

\* the last entry of the pool of t
LastEntry(t) == t.m_best[Len(t.m_best)]

\* C29: whenever the pool is full after a CheckBest call, the first admission into an
\* empty pool with max_best = 1 included, the stored threshold equals the suitability
\* key of the last pool entry.
C29_ThresholdIsLastEntry ==
    (loaded = "no" /\ step_result = "true" /\ PoolFull(task))
        => MetricsEq(task.m_suit_threshold, Suitability(LastEntry(task)))

\* the same after the CheckBest calls made on a non-empty pool
ThresholdIsLastEntryAfterFirst ==
    (loaded = "no" /\ step_result = "true" /\ PoolFull(task) /\ task.m_count >= 2)
        => MetricsEq(task.m_suit_threshold, Suitability(LastEntry(task)))

RECURSIVE FirstGreater(_, _, _)
\* the first position from i on whose entry has a key greater than that of f (new_dist <
\* dist in the scan of CheckBest), 0 when there is none
FirstGreater(best, f, i) ==
    IF i > Len(best) THEN 0
    ELSE IF MetricsCompare(Suitability(f), Suitability(best[i])) = "less" THEN i
    ELSE FirstGreater(best, f, i + 1)

\* a CheckBest call on a non-empty pool leaves the pool as it is or inserts the tree
\* before the first entry with a greater key
InsertedBeforeFirstGreater ==
    (Offered /\ task.m_best # <<>>)
        => \/ BestEq(task'.m_best, task.m_best, 1)
           \/ /\ FirstGreater(task.m_best, task'.m_fn, 1) # 0
              /\ InsertedAndTailDropped(task'.m_best, task.m_best,
                                        FirstGreater(task.m_best, task'.m_fn, 1),
                                        task'.m_fn, task.m_settings.max_best)

----------------------------------------------------------------------------
(* The suitability key compared on its own: a < b, a > b, a == b            *)

\* largest value of a field of a suitability key
MetricBound == 2

MetricValues == 0..MetricBound

InitMetrics ==
    /\ atoms = MakeAtoms
    /\ skip_constant = FALSE
    /\ skip_symmetric = FALSE
    /\ max_depth = 0
    /\ fnc = NewNode
    /\ iter_result = "none"
    /\ calls = 0
    /\ yielded = {}
    /\ other = NewNode
    /\ DriverIdle
    /\ \E d \in MetricValues, l \in MetricValues, c \in MetricValues, u \in MetricValues :
          lhs = SuitabilityMetrics(d, l, c, u)
    /\ \E d \in MetricValues, l \in MetricValues, c \in MetricValues, u \in MetricValues :
          rhs = SuitabilityMetrics(d, l, c, u)
    /\ ordering = "none"
    /\ ThreadsIdle
    /\ RangeSetIdle

\* lhs <=> rhs
CompareCall ==
    /\ ordering = "none"
    /\ ordering' = MetricsCompare(lhs, rhs)
    /\ UNCHANGED <<config_vars, enumerator_vars, driver_vars, lhs, rhs, thread_vars,
                   rangeset_vars>>

NextMetrics == CompareCall

SpecMetrics == InitMetrics /\ [][NextMetrics]_vars

\* less in the lexicographic order over all four fields
LexLess(m, o) == LexGreater(o, m)

\* C14: the comparison of two suitability keys is the lexicographic order over
\* (distance, max_level, functions_count, functions_unique): lhs compares less exactly
\* when it is smaller at the first field where the keys differ, and the keys compare
\* equivalent exactly when all four fields are equal.
C14_LexicographicOverFourFields ==
    ordering # "none" =>
        /\ (ordering = "less") <=> LexLess(lhs, rhs)
        /\ (ordering = "equivalent") <=> MetricsEq(lhs, rhs)

\* the comparison over the three fields the code reads: the keys without their
\* functions_count are in lexicographic order
MetricsComparedWithoutFunctionsCount ==
    ordering # "none" =>
        /\ (ordering = "less") <=>
              LexLess([lhs EXCEPT !.functions_count = 0], [rhs EXCEPT !.functions_count = 0])
        /\ (ordering = "greater") <=>
              LexGreater([lhs EXCEPT !.functions_count = 0], [rhs EXCEPT !.functions_count = 0])

----------------------------------------------------------------------------
(* The driver with its background worker: Run(), Stop(), the loop of        *)
(* Search() in the worker thread, and the foreground thread reading the      *)
(* driver through Best(), GetStatus() and ToJSON().                          *)
(* threads is the sequence of the threads created so far; a thread is named  *)
(* by its position. m_thread is the thread the member m_thread holds (0: not *)
(* joinable), m_mtx the thread that holds the mutex (0: free).               *)

\* threads one driver may create in a run of the model
MaxThreads == 2

ThreadLibraries ==
    {[arg0 |-> <<AF_ARG_X, AF_CONST(1)>>, arg1 |-> <<AF_NOT>>, arg2 |-> <<AF_AND>>]}

\* a thread at the point pc of Search(); its stop token; the local iterate_ok; and
\* the number of SearchIterate calls it began after a stop request
Thread(pc) ==
    [pc |-> pc, stop_requested |-> FALSE, iterate_ok |-> TRUE, steps_after_stop |-> 0]

\* the thread has not left Search()
Running(th) == th.pc # "exited"

\* the threads executing Search()
Workers == {w \in 1..Len(threads) : Running(threads[w])}

InitThreads ==
    /\ atoms \in ThreadLibraries
    /\ skip_constant = FALSE
    /\ skip_symmetric = FALSE
    /\ max_depth \in {0, 1}
    /\ fnc = NewNode
    /\ iter_result = "none"
    /\ calls = 0
    /\ yielded = {}
    /\ other = NewNode
    /\ \E mb \in 1..2, g \in IndeterminateValues :
          task = SearchTask(Settings(mb, max_depth), g)
    /\ new_task = SearchTask(Settings(1, 0), 0)
    /\ step_result = "none"
    /\ new_step_result = "none"
    /\ loaded = "no"
    /\ offered = {}
    /\ document = "none"
    /\ MetricsIdle
    /\ RangeSetIdle
    /\ threads = <<>>
    /\ m_thread = 0
    /\ m_mtx = 0
    /\ caller = "idle"
    /\ observed = [call |-> "none"]
    /\ whole = task

\* variant: the test of the while loop does not read m_done
Search_Continues_IgnoresDone(th, t) ==
    ~th.stop_requested /\ th.iterate_ok

\* (not stoken.stop_requested()) and iterate_ok and (not m_done)
Search_Continues(th, t) ==
    ~th.stop_requested /\ th.iterate_ok /\ ~t.m_done

\* Search(): the test of the while loop
WorkerLoop(w) ==
    /\ threads[w].pc = "loop"
    /\ threads' = [threads EXCEPT ![w].pc =
                      IF Search_Continues(threads[w], task) THEN "lock" ELSE "exited"]
    /\ UNCHANGED <<config_vars, enumerator_vars, driver_vars, metrics_vars, rangeset_vars,
                   m_thread, m_mtx, caller, observed, whole>>

\* SearchIterate(): std::unique_lock lock{m_mtx}
WorkerLock(w) ==
    /\ threads[w].pc = "lock"
    /\ m_mtx = 0
    /\ m_mtx' = w
    /\ threads' = [threads EXCEPT ![w].pc = "iterate",
                                  ![w].steps_after_stop =
                                      IF threads[w].stop_requested THEN @ + 1 ELSE @]
    /\ UNCHANGED <<config_vars, enumerator_vars, driver_vars, metrics_vars, rangeset_vars,
                   m_thread, caller, observed, whole>>

\* the driver and the thread w after m_fn.Iterate returned r: on false SearchIterate
\* returns and the lock is released
WorkerIterate_Result(w, r) ==
    /\ task' = [task EXCEPT !.m_fn = r.node]
    /\ threads' = [threads EXCEPT ![w].pc = IF r.ok THEN "check_best" ELSE "set_done",
                                  ![w].iterate_ok = r.ok]
    /\ m_mtx' = IF r.ok THEN m_mtx ELSE 0
    /\ whole' = IF r.ok THEN whole ELSE task'

\* SearchIterate(): m_fn.Iterate(m_settings.max_depth)
WorkerIterate(w) ==
    /\ threads[w].pc = "iterate"
    /\ WorkerIterate_Result(w, Iterate(atoms, skip_constant, skip_symmetric, task.m_fn,
                                       task.m_settings.max_depth, 0))
    /\ UNCHANGED <<config_vars, enumerator_vars, new_task, step_result, new_step_result,
                   loaded, offered, document, metrics_vars, rangeset_vars, m_thread, caller, observed>>

\* the driver after CheckBest returned cb
WorkerCheckBest_Result(cb) ==
    task' = [task EXCEPT !.m_fn = cb.fnc, !.m_best = cb.m_best,
                         !.m_suit_threshold = cb.m_suit_threshold]

\* CheckBest(f, ...) on the pool best evaluates a tree with a node whose atom is not
\* in the library a: Calculate() reads arg0/arg1/arg2 past the end (the push_back into
\* an empty pool evaluates nothing)
AtomsMissing(a, best, f) ==
    /\ best # <<>>
    /\ \/ ~ValidAtoms(a, f)
       \/ \E i \in 1..Len(best) : ~ValidAtoms(a, best[i])

\* SearchIterate(): CheckBest(m_fn, m_settings.max_best)
WorkerCheckBest(w) ==
    /\ threads[w].pc = "check_best"
    /\ ~AtomsMissing(atoms, task.m_best, task.m_fn)
    /\ WorkerCheckBest_Result(CheckBest(atoms, task.m_best, task.m_suit_threshold,
                                        task.m_fn, task.m_settings.max_best))
    /\ threads' = [threads EXCEPT ![w].pc = "count"]
    /\ UNCHANGED <<config_vars, enumerator_vars, new_task, step_result, new_step_result,
                   loaded, offered, document, metrics_vars, rangeset_vars, m_thread, m_mtx, caller,
                   observed, whole>>

\* SearchIterate(): ++m_count; return true (the lock is released)
WorkerCount(w) ==
    /\ threads[w].pc = "count"
    /\ task' = [task EXCEPT !.m_count = @ + 1]
    /\ threads' = [threads EXCEPT ![w].pc = "loop"]
    /\ m_mtx' = 0
    /\ whole' = task'
    /\ UNCHANGED <<config_vars, enumerator_vars, new_task, step_result, new_step_result,
                   loaded, offered, document, metrics_vars, rangeset_vars, m_thread, caller, observed>>

\* Search(): m_done = true after SearchIterate returned false
WorkerSetDone(w) ==
    /\ threads[w].pc = "set_done"
    /\ task' = [task EXCEPT !.m_done = TRUE]
    /\ threads' = [threads EXCEPT ![w].pc = "loop"]
    /\ UNCHANGED <<config_vars, enumerator_vars, new_task, step_result, new_step_result,
                   loaded, offered, document, metrics_vars, rangeset_vars, m_thread, m_mtx, caller,
                   observed, whole>>

\* SearchIterate(): CheckBest reads an atom past the end of its bucket. The read is
\* undefined: the process is ended by the access (the thread stops where it is, inside
\* the lock), or the call returns without an admission and the search goes on.
WorkerFault(w) ==
    /\ threads[w].pc = "check_best"
    /\ AtomsMissing(atoms, task.m_best, task.m_fn)
    /\ \E outcome \in {"crashed", "count"} :
          threads' = [threads EXCEPT ![w].pc = outcome]
    /\ UNCHANGED <<config_vars, enumerator_vars, driver_vars, metrics_vars, rangeset_vars,
                   m_thread, m_mtx, caller, observed, whole>>

\* one step of a worker thread
Worker ==
    \E w \in 1..Len(threads) :
        \/ WorkerLoop(w) \/ WorkerLock(w) \/ WorkerIterate(w)
        \/ WorkerCheckBest(w) \/ WorkerCount(w) \/ WorkerSetDone(w)

\* Run(): std::jthread(std::bind_front(&SearchTask::Search, this)) -- the new thread
\* starts to execute Search() when the temporary is constructed
RunConstruct ==
    /\ caller = "idle"
    /\ Len(threads) < MaxThreads
    /\ threads' = Append(threads, Thread("loop"))
    /\ caller' = "run_assign"
    /\ UNCHANGED <<config_vars, enumerator_vars, driver_vars, metrics_vars, rangeset_vars,
                   m_thread, m_mtx, observed, whole>>

\* Run(): m_thread = ... (move assignment): a joinable m_thread is asked to stop and
\* is joined before it is replaced
RunAssign ==
    /\ caller = "run_assign"
    /\ IF m_thread = 0
       THEN /\ m_thread' = Len(threads)
            /\ caller' = "idle"
            /\ UNCHANGED threads
       ELSE /\ threads' = [threads EXCEPT ![m_thread].stop_requested = TRUE]
            /\ caller' = "run_join"
            /\ UNCHANGED m_thread
    /\ UNCHANGED <<config_vars, enumerator_vars, driver_vars, metrics_vars, rangeset_vars,
                   m_mtx, observed, whole>>

\* variant: join returns while the thread still runs
Joined_NoWait(th) == TRUE

\* std::jthread::join returns: the thread th has finished
Joined(th) == ~Running(th)

\* Run(): the join of the move assignment returns and m_thread holds the new thread
RunJoin ==
    /\ caller = "run_join"
    /\ Joined(threads[m_thread])
    /\ m_thread' = Len(threads)
    /\ caller' = "idle"
    /\ UNCHANGED <<config_vars, enumerator_vars, driver_vars, metrics_vars, rangeset_vars,
                   threads, m_mtx, observed, whole>>

\* Stop(): m_thread.request_stop() on a driver whose m_thread is joinable
StopRequest ==
    /\ caller = "idle"
    /\ m_thread # 0
    /\ threads' = [threads EXCEPT ![m_thread].stop_requested = TRUE]
    /\ caller' = "stop_join"
    /\ UNCHANGED <<config_vars, enumerator_vars, driver_vars, metrics_vars, rangeset_vars,
                   m_thread, m_mtx, observed, whole>>

\* Stop(): m_thread.join() returns and Stop() with it
StopJoin ==
    /\ caller = "stop_join"
    /\ Joined(threads[m_thread])
    /\ m_thread' = 0
    /\ caller' = "idle"
    /\ UNCHANGED <<config_vars, enumerator_vars, driver_vars, metrics_vars, rangeset_vars,
                   threads, m_mtx, observed, whole>>

\* what a reader of the driver sees, with the state the last completed SearchIterate
\* call left
Observation(call) == [call |-> call, task |-> task, whole |-> whole]

\* Best() / GetStatus() / Status(): the members are read under std::unique_lock
LockedRead ==
    /\ caller = "idle"
    /\ m_mtx = 0
    /\ \E call \in {"Best", "GetStatus"} : observed' = Observation(call)
    /\ UNCHANGED <<config_vars, enumerator_vars, driver_vars, metrics_vars, rangeset_vars,
                   threads, m_thread, m_mtx, caller, whole>>

\* ToJSON(): the members are read without the mutex. A read that overlaps a write of
\* the worker is a data race; of its outcomes the model keeps the reads that fall
\* between two writes.
ToJSONCall ==
    /\ caller = "idle"
    /\ observed' = Observation("ToJSON")
    /\ UNCHANGED <<config_vars, enumerator_vars, driver_vars, metrics_vars, rangeset_vars,
                   threads, m_thread, m_mtx, caller, whole>>

NextThreads ==
    \/ Worker
    \/ RunConstruct \/ RunAssign \/ RunJoin
    \/ StopRequest \/ StopJoin
    \/ LockedRead \/ ToJSONCall

SpecThreads == InitThreads /\ [][NextThreads]_vars

----------------------------------------------------------------------------
(* Properties of the driver with its worker                                 *)

\* the members a step writes: cursor, iteration count, pool and threshold
StepState(t) == <<t.m_fn, t.m_count, t.m_best, t.m_suit_threshold>>

\* C18: every read of the driver made through Best(), GetStatus() or ToJSON() while
\* the worker runs sees cursor, pool, count and threshold as a completed
\* SearchIterate call left them, never a cursor that has advanced without the pool
\* admission or the count increment of its step.
C18_ReadsSeeWholeSteps ==
    observed.call # "none" => StepState(observed.task) = StepState(observed.whole)

\* the reads made under the mutex see the state a completed call left
LockedReadsSeeWholeSteps ==
    observed.call \in {"Best", "GetStatus"}
        => StepState(observed.task) = StepState(observed.whole)

\* C19: at most one thread executes the loop of Search() at any time, whatever the
\* sequence of Run() and Stop() calls.
C19_SingleWorker ==
    Cardinality(Workers) <= 1

\* outside a Run() call every thread but the one m_thread holds has finished
OnlyLastThreadRunsOutsideRun ==
    caller \in {"idle", "stop_join"} => Workers \subseteq {m_thread}

\* no thread begins more than one SearchIterate call after its stop request
AtMostOneStepAfterStop ==
    \A w \in 1..Len(threads) : threads[w].steps_after_stop <= 1

\* Stop() has returned and Run() was not called since
Stopped ==
    caller = "idle" /\ m_thread = 0 /\ threads # <<>>

\* after Stop() no thread executes Search(), the mutex is free, and the driver is as
\* the last completed SearchIterate call left it
StoppedBetweenSteps ==
    Stopped => /\ Workers = {}
               /\ m_mtx = 0
               /\ StepState(task) = StepState(whole)

\* a thread leaves Search() only at the test of the while loop, between two
\* SearchIterate calls
ExitsBetweenSteps ==
    \A w \in 1..Len(threads) :
        (Running(threads[w]) /\ ~Running(threads'[w])) => threads[w].pc = "loop"

\* after Stop() the driver does not change until Run() is called
StoppedStaysUnchanged ==
    (Stopped /\ caller' = "idle") => task' = task

\* C20: a stop request is seen by the worker between two SearchIterate calls, the
\* worker begins at most one call after the request, Stop() returns only when the
\* worker has left Search(), and from then on cursor, pool, threshold and count are
\* those of the last completed call and stay so until Run() is called.
C20_CancellationSafe ==
    /\ [](AtMostOneStepAfterStop /\ StoppedBetweenSteps)
    /\ [][ExitsBetweenSteps /\ StoppedStaysUnchanged]_vars

\* Stop() returned after the worker began one more call past the request, with the
\* search neither at its start nor at its end
C20_Witness ==
    /\ Stopped
    /\ \E w \in 1..Len(threads) : threads[w].steps_after_stop = 1
    /\ task.m_count >= 2
    /\ ~task.m_done

----------------------------------------------------------------------------
(* The driver left to run: Run() is called, Stop() never is.                *)

\* the library of the worker tests and a library with nothing but the argument
RunLibraries ==
    ThreadLibraries \cup {[arg0 |-> <<AF_ARG_X>>, arg1 |-> <<>>, arg2 |-> <<>>]}

InitRun ==
    /\ atoms \in RunLibraries
    /\ skip_constant = FALSE
    /\ skip_symmetric = FALSE
    /\ max_depth \in {0, 1}
    /\ fnc = NewNode
    /\ iter_result = "none"
    /\ calls = 0
    /\ yielded = {}
    /\ other = NewNode
    /\ \E mb \in 1..2, g \in IndeterminateValues :
          task = SearchTask(Settings(mb, max_depth), g)
    /\ new_task = SearchTask(Settings(1, 0), 0)
    /\ step_result = "none"
    /\ new_step_result = "none"
    /\ loaded = "no"
    /\ offered = {}
    /\ document = "none"
    /\ MetricsIdle
    /\ RangeSetIdle
    /\ threads = <<>>
    /\ m_thread = 0
    /\ m_mtx = 0
    /\ caller = "idle"
    /\ observed = [call |-> "none"]
    /\ whole = task

\* one step of a worker thread, the undefined read included
RunWorker == Worker \/ \E w \in 1..Len(threads) : WorkerFault(w)

NextRun == RunWorker \/ RunConstruct \/ RunAssign \/ RunJoin

\* the scheduler lets a thread that can take a step take one
SpecRun == InitRun /\ [][NextRun]_vars /\ WF_vars(RunWorker)

\* every thread started by Run() has left Search() and the done flag is set
SearchFinished ==
    /\ task.m_done
    /\ \A w \in 1..Len(threads) : threads[w].pc = "exited"

\* C21: once Run() was called and Stop() never is, the worker gets false from
\* SearchIterate, sets m_done and leaves Search(), for every library with an arity-0
\* atom and every max_depth.
C21_SearchFinishes ==
    (threads # <<>>) ~> SearchFinished

\* with a library that has an atom of every arity, and in a search that never builds
\* a node of arity 1 or 2, no step meets a missing atom and the number of steps is
\* bounded by MaxSerialNumber(max_depth)
SearchBoundedFullLibrary ==
    (atoms \in ThreadLibraries \/ max_depth = 0)
        => /\ ~AtomsMissing(atoms, task.m_best, task.m_fn)
           /\ \A w \in 1..Len(threads) : threads[w].pc # "crashed"
           /\ task.m_count <= MaxSerialNumber(atoms, max_depth)

----------------------------------------------------------------------------
(* The driver restored from a saved state and run again: FromJSON() on the  *)
(* stopped driver, then Run() and Stop() as before.                          *)

\* steps of the search the saved states were taken after
ResumeSteps == 2

\* the text ToJSON() gives for the driver with settings st after k steps, with the
\* done flag d
SavedDocument(st, k, d) ==
    ToJSON(atoms, [StepsFrom(SearchTask(st, 0), k) EXCEPT !.m_done = d])

\* the driver and the result after a FromJSON call that returned r on a document with
\* the done flag d
Restored(r, d) ==
    /\ task' = r.task
    /\ loaded' = IF r.ok THEN "ok" ELSE "failed"
    /\ document' = IF d THEN "done" ELSE "not_done"
    /\ whole' = task'

\* task.FromJSON(text) in the foreground while no worker runs
FromJSONCall ==
    /\ caller = "idle"
    /\ Workers = {}
    /\ \E k \in 0..ResumeSteps, d \in BOOLEAN :
          Restored(FromJSON(task, SavedDocument(task.m_settings, k, d)), d)
    /\ UNCHANGED <<config_vars, enumerator_vars, new_task, step_result, new_step_result,
                   offered, metrics_vars, rangeset_vars, threads, m_thread, m_mtx, caller, observed>>

NextResume ==
    \/ Worker
    \/ RunConstruct \/ RunAssign \/ RunJoin
    \/ StopRequest \/ StopJoin
    \/ FromJSONCall

SpecResume == InitThreads /\ [][NextResume]_vars

\* the thread w sets m_done after its SearchIterate call returned false
SetsDoneAfterFalse(w) ==
    threads[w].pc = "set_done" /\ ~threads[w].iterate_ok /\ threads'[w].pc = "loop"

\* the done flag goes from false to true only in a thread whose SearchIterate call
\* returned false or in a FromJSON call on a document whose "done" is true
DoneSetByFalseStepOrLoad ==
    (task'.m_done /\ ~task.m_done)
        => \/ \E w \in 1..Len(threads) : SetsDoneAfterFalse(w)
           \/ loaded' = "ok" /\ document' = "done" /\ threads' = threads

\* a thread that leaves Search() because of a stop request leaves the done flag as
\* it is
StopLeavesDone ==
    \A w \in 1..Len(threads) :
        (Running(threads[w]) /\ ~Running(threads'[w]) /\ threads[w].iterate_ok)
            => task'.m_done = task.m_done

\* C22: m_done, the value Done() returns, becomes true only when a SearchIterate call
\* of this driver returned false or when FromJSON loaded "done": true; a worker that
\* exits because of Stop() leaves it false.
C22_DoneMeansEnumerationCompleted ==
    [][DoneSetByFalseStepOrLoad /\ StopLeavesDone]_vars

\* a worker was stopped in the middle of the search and left done false; the next
\* worker ran to the end and set it
C22_Witness ==
    /\ Len(threads) = 2
    /\ threads[1].pc = "exited" /\ threads[1].stop_requested /\ threads[1].iterate_ok
    /\ threads[2].pc = "exited" /\ ~threads[2].iterate_ok
    /\ task.m_done
    /\ document = "none"

\* FromJSON has loaded "done": true and was not called again
LoadedDone == loaded = "ok" /\ document = "done"

\* while the loaded state is done no worker is inside a SearchIterate call
RunAfterLoadedDoneMakesNoStep ==
    LoadedDone => /\ task.m_done
                  /\ StepState(task) = StepState(whole)
                  /\ \A w \in 1..Len(threads) : threads[w].pc \in {"loop", "exited"}

\* a step of Run(), Stop() or a worker while the loaded state is done leaves the
\* driver as it is
RunAfterLoadedDoneChangesNothing ==
    (LoadedDone /\ <<threads, m_thread, caller>>' # <<threads, m_thread, caller>>)
        => task' = task

\* C23: after FromJSON loaded a state whose done flag is true, Run() starts a worker
\* that makes no SearchIterate call: cursor, pool, threshold and iteration count stay
\* as loaded and done stays true.
C23_RunAfterLoadedDoneExits ==
    []RunAfterLoadedDoneMakesNoStep /\ [][RunAfterLoadedDoneChangesNothing]_vars

\* a state saved after two steps was loaded with done true, Run() was called and its
\* worker has left Search()
C23_Witness ==
    /\ LoadedDone
    /\ task.m_count = 2
    /\ threads # <<>>
    /\ m_thread = Len(threads)
    /\ threads[m_thread].pc = "exited"
    /\ caller = "idle"

----------------------------------------------------------------------------
(* RangeSet<std::size_t> on its own: a set built by AddRange and Add calls.  *)

\* the largest index passed to a RangeSet
MaxIndex == 3

\* calls made on one RangeSet
MaxAdds == 3

Indices == 0..MaxIndex

\* RangeSet::Count
RECURSIVE Count(_)
Count(ranges) ==
    IF ranges = {} THEN 0
    ELSE LET range == CHOOSE p \in ranges : TRUE
         IN (range[2] - range[1] + 1) + Count(ranges \ {range})

InitRanges ==
    /\ atoms = MakeAtoms
    /\ skip_constant = FALSE
    /\ skip_symmetric = FALSE
    /\ max_depth = 0
    /\ fnc = NewNode
    /\ iter_result = "none"
    /\ calls = 0
    /\ yielded = {}
    /\ other = NewNode
    /\ DriverIdle
    /\ MetricsIdle
    /\ ThreadsIdle
    /\ RangeSetIdle

\* ranges.AddRange(start, end)
AddRangeCall ==
    /\ Len(added) < MaxAdds
    /\ \E start \in Indices, end \in Indices :
          /\ start # end
          /\ m_ranges' = AddRange(m_ranges, start, end)
          /\ added' = Append(added, <<start, end>>)
    /\ UNCHANGED <<config_vars, enumerator_vars, driver_vars, metrics_vars, thread_vars>>

\* ranges.Add(number)
AddCall ==
    /\ Len(added) < MaxAdds
    /\ \E number \in Indices :
          /\ m_ranges' = Add(m_ranges, number)
          /\ added' = Append(added, <<number, number>>)
    /\ UNCHANGED <<config_vars, enumerator_vars, driver_vars, metrics_vars, thread_vars>>

NextRanges == AddRangeCall \/ AddCall

SpecRanges == InitRanges /\ [][NextRanges]_vars

\* the indices of the interval a call names
Interval(call) == Min2(call[1], call[2])..Max2(call[1], call[2])

\* the indices the calls made so far have added
Members == UNION {Interval(added[i]) : i \in 1..Len(added)}

\* the intervals of two calls overlap or are adjacent
Touching(c1, c2) ==
    \E i \in Interval(c1), j \in Interval(c2) : i = j \/ i = j + 1 \/ j = i + 1

\* the one interval that covers two touching calls
Union2(c1, c2) ==
    <<Min2(Min2(c1[1], c1[2]), Min2(c2[1], c2[2])),
      Max2(Max2(c1[1], c1[2]), Max2(c2[1], c2[2]))>>

\* C24: on a RangeSet over size_t, index 0 included, AddRange(a, b) followed by
\* AddRange(c, d) with overlapping or adjacent intervals leaves exactly the interval
\* [min(a, c), max(b, d)], and Count() is the number of distinct indices added.
C24_TouchingRangesMerge ==
    /\ (Len(added) = 2 /\ Touching(added[1], added[2]))
          => m_ranges = {Union2(added[1], added[2])}
    /\ Count(m_ranges) = Cardinality(Members)

\* the same for calls that name no index 0
TouchingRangesMergeAboveZero ==
    (\A i \in 1..Len(added) : 0 \notin Interval(added[i]))
        => /\ (Len(added) = 2 /\ Touching(added[1], added[2]))
                 => m_ranges = {Union2(added[1], added[2])}
           /\ Count(m_ranges) = Cardinality(Members)

\* the maximal intervals of a set of indices
MaximalIntervals(set) ==
    {<<lo, hi>> \in Indices \X Indices :
        /\ lo <= hi
        /\ \A i \in lo..hi : i \in set
        /\ (lo - 1) \notin set
        /\ (hi + 1) \notin set}

\* the stored intervals are well-formed, pairwise disjoint and not adjacent
DisjointNonAdjacent ==
    /\ \A p \in m_ranges : p[1] <= p[2]
    /\ \A p \in m_ranges, q \in m_ranges :
          p # q => (p[2] + 1 < q[1] \/ q[2] + 1 < p[1])

\* C25: after any sequence of Add and AddRange calls the stored intervals are pairwise
\* disjoint and non-adjacent, so the stored intervals are determined by the set of
\* indices alone: two RangeSets with the same indices compare equal and print the
\* same, whatever the order and grouping of the calls.
C25_CanonicalForm ==
    /\ DisjointNonAdjacent
    /\ m_ranges = MaximalIntervals(Members)

\* the same for calls that name no index 0
CanonicalFormAboveZero ==
    (\A i \in 1..Len(added) : 0 \notin Interval(added[i]))
        => /\ DisjointNonAdjacent
           /\ m_ranges = MaximalIntervals(Members)

----------------------------------------------------------------------------
(* AtomFuncs on its own: a library built by Add calls.                       *)

\* the atoms handed to Add: two argument atoms, two constants, the unary and the
\* binary samples
Atom0Samples == {AF_ARG_X, [cls |-> "AF_ARG_X", val |-> 1], AF_CONST(1), AF_CONST(2)}
Atom1Samples == {AF_NOT, AF_BITCOUNT}
Atom2Samples == {AF_SUM, AF_AND}

\* the atoms of a bucket
Bucket(seq) == {seq[i] : i \in 1..Len(seq)}

\* variant: every nullary atom is appended
AtomFuncs_Add0_PushBack(a, func) ==
    [a EXCEPT !.arg0 = Append(@, func)]

\* AtomFuncs::Add(AtomFunc0*)
AtomFuncs_Add0(a, func) ==
    IF Atom0Constant(func) THEN [a EXCEPT !.arg0 = Append(@, func)]
    ELSE [a EXCEPT !.arg0 = <<func>> \o @]

\* AtomFuncs::Add(AtomFunc1*)
AtomFuncs_Add1(a, func) == [a EXCEPT !.arg1 = Append(@, func)]

\* AtomFuncs::Add(AtomFunc2*)
AtomFuncs_Add2(a, func) == [a EXCEPT !.arg2 = Append(@, func)]

InitAtoms ==
    /\ atoms = [arg0 |-> <<>>, arg1 |-> <<>>, arg2 |-> <<>>]
    /\ skip_constant = FALSE
    /\ skip_symmetric = FALSE
    /\ max_depth = 0
    /\ fnc = NewNode
    /\ iter_result = "none"
    /\ calls = 0
    /\ yielded = {}
    /\ other = NewNode
    /\ DriverIdle
    /\ MetricsIdle
    /\ ThreadsIdle
    /\ RangeSetIdle

\* atoms.Add(&atom) with a nullary atom not yet in the library
AddAtom0 ==
    /\ \E func \in Atom0Samples \ Bucket(atoms.arg0) : atoms' = AtomFuncs_Add0(atoms, func)
    /\ UNCHANGED <<skip_constant, skip_symmetric, max_depth, enumerator_vars, driver_vars,
                   metrics_vars, thread_vars, rangeset_vars>>

\* atoms.Add(&atom) with a unary atom not yet in the library
AddAtom1 ==
    /\ \E func \in Atom1Samples \ Bucket(atoms.arg1) : atoms' = AtomFuncs_Add1(atoms, func)
    /\ UNCHANGED <<skip_constant, skip_symmetric, max_depth, enumerator_vars, driver_vars,
                   metrics_vars, thread_vars, rangeset_vars>>

\* atoms.Add(&atom) with a binary atom not yet in the library
AddAtom2 ==
    /\ \E func \in Atom2Samples \ Bucket(atoms.arg2) : atoms' = AtomFuncs_Add2(atoms, func)
    /\ UNCHANGED <<skip_constant, skip_symmetric, max_depth, enumerator_vars, driver_vars,
                   metrics_vars, thread_vars, rangeset_vars>>

NextAtoms == AddAtom0 \/ AddAtom1 \/ AddAtom2

SpecAtoms == InitAtoms /\ [][NextAtoms]_vars

\* C26: after any sequence of Add calls with nullary atoms every non-constant atom
\* has a smaller index in arg0 than every constant atom.
C26_ConstantsLast ==
    \A i \in 1..Len(atoms.arg0), j \in 1..Len(atoms.arg0) :
        (~Atom0Constant(atoms.arg0[i]) /\ Atom0Constant(atoms.arg0[j])) => i < j

\* two argument atoms and two constants have been added
C26_Witness ==
    /\ Len(atoms.arg0) = 4
    /\ ~Atom0Constant(atoms.arg0[2])
    /\ Atom0Constant(atoms.arg0[3])

\* the index of an atom in its bucket
IndexIn(seq, func) == CHOOSE i \in 1..Len(seq) : seq[i] = func

\* an Add call leaves every atom of the bucket at its index
BucketStable(seq, seq2) ==
    \A func \in Bucket(seq) : func \in Bucket(seq2) /\ IndexIn(seq2, func) = IndexIn(seq, func)

\* C27: the (arity, index) pair of an atom is stable: an Add call never changes the
\* index of an atom added earlier.
C27_IndexStable ==
    [][/\ BucketStable(atoms.arg0, atoms'.arg0)
       /\ BucketStable(atoms.arg1, atoms'.arg1)
       /\ BucketStable(atoms.arg2, atoms'.arg2)]_vars

\* the indices of the unary and of the binary atoms are stable
IndexStableAboveArity0 ==
    [][/\ BucketStable(atoms.arg1, atoms'.arg1)
       /\ BucketStable(atoms.arg2, atoms'.arg2)]_vars

----------------------------------------------------------------------------
(* FuncNode on its own: a node fnc that is iterated, evaluated, cleared,     *)
(* copied into a second node, assigned from it and parsed from its JSON.     *)

\* the depth limit of the Iterate calls
NodeDepth == 1

\* fnc = other: atom index and children are those of other (the children are
\* copy-constructed), m_values and m_ch of fnc stay
Assign(n, o) == [CopyNode(o) EXCEPT !.values = n.values]

InitNode ==
    /\ atoms \in FullLibraries
    /\ skip_constant \in BOOLEAN
    /\ skip_symmetric \in BOOLEAN
    /\ max_depth \in 0..NodeDepth
    /\ fnc = NewNode
    /\ iter_result = "none"
    /\ calls = 0
    /\ yielded = {}
    /\ other = NewNode
    /\ DriverIdle
    /\ MetricsIdle
    /\ ThreadsIdle
    /\ RangeSetIdle

\* fnc.Iterate(max_depth), whatever the call before returned
NodeIterate ==
    /\ IterateResult(Iterate(atoms, skip_constant, skip_symmetric, fnc, max_depth, 0))
    /\ UNCHANGED <<config_vars, calls, yielded, other, driver_vars, metrics_vars,
                   rangeset_vars, thread_vars>>

\* fnc.Calculate()
NodeCalculate ==
    /\ fnc' = Calculate(atoms, fnc, FALSE)
    /\ UNCHANGED <<config_vars, iter_result, calls, yielded, other, driver_vars,
                   metrics_vars, rangeset_vars, thread_vars>>

\* fnc.ClearCalculated()
NodeClear ==
    /\ fnc' = ClearCalculated(fnc)
    /\ UNCHANGED <<config_vars, iter_result, calls, yielded, other, driver_vars,
                   metrics_vars, rangeset_vars, thread_vars>>

\* FuncNode other{fnc}
NodeCopy ==
    /\ other' = CopyNode(fnc)
    /\ UNCHANGED <<config_vars, fnc, iter_result, calls, yielded, driver_vars,
                   metrics_vars, rangeset_vars, thread_vars>>

\* fnc = other
NodeAssign ==
    /\ fnc' = Assign(fnc, other)
    /\ UNCHANGED <<config_vars, iter_result, calls, yielded, other, driver_vars,
                   metrics_vars, rangeset_vars, thread_vars>>

\* fnc.FromJSON(other.ToJSON())
NodeFromJSONCall ==
    /\ fnc' = NodeFromJSON(fnc, NodeToJSON(atoms, other)).node
    /\ UNCHANGED <<config_vars, iter_result, calls, yielded, other, driver_vars,
                   metrics_vars, rangeset_vars, thread_vars>>

NextNode ==
    \/ NodeIterate
    \/ NodeCalculate
    \/ NodeClear
    \/ NodeCopy
    \/ NodeAssign
    \/ NodeFromJSONCall

SpecNode == InitNode /\ [][NextNode]_vars

RECURSIVE CachesValid(_, _)
\* the cache of every node of n is empty or holds what the atom of the node gives on
\* the outputs of the children the node has now
CachesValid(a, n) ==
    /\ n.values = <<>> \/ n.values = Values(a, n)
    /\ \A i \in 1..Len(n.arg1) : CachesValid(a, n.arg1[i])
    /\ \A i \in 1..Len(n.arg2) : CachesValid(a, n.arg2[i])

\* C33: in every state reached by Iterate (a call that returned false included),
\* Calculate, ClearCalculated, copy, copy assignment and FromJSON the cached output of
\* every node is empty or equal to the node's atom applied to the current outputs of
\* its current children.
C33_CachesValid == CachesValid(atoms, fnc) /\ CachesValid(atoms, other)

\* the calls that leave the structure of fnc as it is (Calculate, ClearCalculated)
\* keep valid caches valid
CachesValidWhileStructureKept ==
    [][(CachesValid(atoms, fnc) /\ NodeEq(fnc', fnc)) => CachesValid(atoms, fnc')]_vars

\* in the loop of the unit tests, where only Iterate is called, the caches are valid
\* until a call returns false
CachesValidUntilFalse == iter_result # "false" => CachesValid(atoms, fnc)

----------------------------------------------------------------------------
(* Status() / GetStatus() of a driver stepped with SearchIterate()          *)

\* readings of steady_clock::now() - m_tm_start in whole milliseconds
ElapsedSamples == {0, 1, 2000}

\* An integer division by zero is undefined: the build for x86-64 traps (SIGFPE),
\* the build for AArch64 goes on with a quotient of 0.
DivisionByZeroOutcomes == {"trapped", "returned"}

\* x / y of the code where y is not zero
Quotient(x, y) == x \div y

\* GetStatus from "remaining_sn / status.sn_per_sec" on
GetStatus_Remaining(snum, max_sn, d, sn_per_sec, ub) ==
    IF sn_per_sec = 0
    THEN [call |-> "GetStatus", elapsed_ms |-> d, snum |-> snum,
          division_by_zero |-> TRUE, outcome |-> ub, sn_per_sec |-> sn_per_sec,
          remaining |-> 0]
    ELSE [call |-> "GetStatus", elapsed_ms |-> d, snum |-> snum,
          division_by_zero |-> FALSE, outcome |-> "returned", sn_per_sec |-> sn_per_sec,
          remaining |-> Quotient(max_sn - snum, sn_per_sec)]

\* GetStatus from "status.iterations_count * 1000 / d" on, d being the elapsed
\* milliseconds
GetStatus_Elapsed(snum, max_sn, d, ub) ==
    IF d = 0
    THEN [call |-> "GetStatus", elapsed_ms |-> d, snum |-> snum,
          division_by_zero |-> TRUE, outcome |-> ub, sn_per_sec |-> 0, remaining |-> 0]
    ELSE GetStatus_Remaining(snum, max_sn, d, Quotient(snum * 1000, d), ub)

\* SearchTask::GetStatus, and Status(), which makes the same divisions: the numbers
\* of the status record
GetStatus(a, t, d, ub) ==
    GetStatus_Elapsed(SerialNumber(a, t.m_fn), MaxSerialNumber(a, t.m_settings.max_depth),
                      d, ub)

\* task.GetStatus() after the clock advanced by d milliseconds
GetStatusCall ==
    /\ loaded = "no"
    /\ \E d \in ElapsedSamples, ub \in DivisionByZeroOutcomes :
          observed' = GetStatus(atoms, task, d, ub)
    /\ UNCHANGED <<config_vars, enumerator_vars, driver_vars, metrics_vars, rangeset_vars,
                   threads, m_thread, m_mtx, caller, whole>>

\* the status numbers read the cursor only: one pool size and one default threshold
InitStatus ==
    /\ Init
    /\ task = SearchTask(Settings(1, max_depth), 0)
    /\ new_task = SearchTask(Settings(1, max_depth), 0)

NextStatus == SearchIterateCall \/ GetStatusCall

SpecStatus == InitStatus /\ [][NextStatus]_vars

\* C39: Status() can be computed in every reachable driver state without a
\* division by zero: before the first successful step (serial number 0), when zero
\* milliseconds have elapsed, and whenever serial_number * 1000 / elapsed_ms rounds
\* down to 0, the remaining-time estimate (max_sn - sn) / serials_per_sec is defined.
C39_StatusDefined ==
    observed.call = "GetStatus"
        => ~observed.division_by_zero /\ observed.outcome = "returned"

\* no division by zero when at least one millisecond has elapsed and the serial
\* number times 1000 is not below the elapsed milliseconds
StatusDefinedAtFullSpeed ==
    (observed.call = "GetStatus" /\ observed.elapsed_ms > 0
        /\ observed.snum * 1000 >= observed.elapsed_ms)
        => ~observed.division_by_zero /\ observed.outcome = "returned"


----------------------------------------------------------------------------
(* Stop() in every state of the driver                                      *)

\* Stop() on a driver whose m_thread is not joinable (never run, or joined by an
\* earlier Stop()): request_stop() has no stop state to set and returns false, then
\* join() throws std::system_error (invalid_argument), which leaves Stop()
StopNotJoinable ==
    /\ caller = "idle"
    /\ m_thread = 0
    /\ caller' = "stop_threw"
    /\ UNCHANGED <<config_vars, enumerator_vars, driver_vars, metrics_vars, rangeset_vars,
                   threads, m_thread, m_mtx, observed, whole>>

NextStop == NextThreads \/ StopNotJoinable

SpecStop == InitThreads /\ [][NextStop]_vars

\* C40: Stop() can be called in any driver state without failing: on a driver that
\* was never run, or that was already stopped (a second Stop()), it returns
\* normally and leaves cursor, pool, count and done flag unchanged.
C40_StopNeverFails ==
    caller # "stop_threw"

\* a Stop() call, failed or not, leaves cursor, pool, count, threshold and done flag
\* as the last step of the worker left them
StopLeavesDriver ==
    [][(caller' = "stop_threw" \/ (caller = "stop_join" /\ caller' = "idle"))
          => task' = task]_vars


====
